---- MODULE Spec2Model ----
(***************************************************************************)
(* A model of helpers/proxy-pool.mjs: the proxy catalog, the distribution  *)
(* normalizer, the session-token expander and the ProxyDirector, and of    *)
(* the proxy resolution of ApiPoster (api-client.mjs).                     *)
(*                                                                         *)
(* The strings that session expansion rewrites or inserts (host, username, *)
(* password, auth, session keys) and the entry labels are sequences of     *)
(* one-character strings, so that replaceAll is computed character by      *)
(* character.  Country codes, type keys, strategies and protocols are TLA+ *)
(* strings: the code joins them (\o), uppercases them and compares them.   *)
(* Distribution weights are exact rationals [n, d].                        *)
(***************************************************************************)
EXTENDS Integers, Sequences, FiniteSets, TLC

VARIABLES
  catalog,              \* this.catalog / this._pools      (ProxyDirector)
  countryDistribution,  \* this.countryDistribution
  defaultType,          \* this.defaultType
  defaultStrategy,      \* this.defaultStrategy
  rr,                   \* this._rr : "country:type" -> cursor
  sticky,               \* this._sticky : sessionKey -> {country,type,index}
  rrPrev,               \* history: per pool, the index of its latest round-robin pick
  rrCalls,              \* history: per pool, the number of round-robin picks, modulo L
                        \* (under SpecCallers: the picks themselves, in order)
  stickySeen,           \* history: per pool, the latest index a sticky pick of session a chose
  stickyLast,           \* history: per session key, the pool and index of its latest sticky pick
  lastCall,             \* history: how the latest pickProxy call chose and ended,
                        \* and whether it had its country drawn
  tokIn,                \* session expander: the input drawn (cfg, session)
  tokOut,               \* session expander: applySessionToken's result
  builderCat,           \* this._cat                       (ProxyCatalogBuilder)
  currentCountry,       \* this._currentCountry ("" is null)
  built,                \* the catalogs build() has returned, each with its value on return
  builderLast,          \* history: the latest builder call and how it ended
  callerCatalog,        \* the catalog object the caller gave to the constructor
  distIn,               \* normalizeDistribution: the weight map drawn
  distOut,              \* normalizeDistribution: its result
  jsonIn,               \* buildProxyDirectorFromJson: the json drawn
  poster                \* ApiPoster: its static fields, the instance's proxy fields,
                        \* the Directors it can reach and its latest request

vars == <<catalog, countryDistribution, defaultType, defaultStrategy, rr, sticky,
          rrPrev, rrCalls, stickySeen, stickyLast, lastCall, tokIn, tokOut,
          builderCat, currentCountry, built, builderLast, callerCatalog,
          distIn, distOut, jsonIn, poster>>

directorVars == <<catalog, countryDistribution, defaultType, defaultStrategy, rr, sticky,
                  rrPrev, rrCalls, stickySeen, stickyLast, lastCall>>

tokVars == <<tokIn, tokOut>>

builderVars == <<builderCat, currentCountry, built, builderLast>>

fnVars == <<distIn, distOut, jsonIn, poster>>

(***************************************************************************)
(* Bounds of the model.                                                    *)
(***************************************************************************)
\* the length of the rotating pool of the built catalog
MaxPoolLen == 2
\* Math.random() is drawn from {0/RandDen, ..., (RandDen-1)/RandDen}: fine
\* enough for every index of every pool and every country of the catalogs
RandDen == MaxPoolLen + 1

(***************************************************************************)
(* JavaScript values.                                                      *)
(***************************************************************************)
\* undefined (or null: the code never tells them apart) where a sequence of
\* characters could stand: a sequence no string equals, its one element not
\* being a character
Undefined == <<"undefined">>

\* !v of a sequence of characters
Falsy(v) == v = Undefined \/ v = <<>>

Truthy(v) == ~Falsy(v)

\* a || b.  A country, a type or a strategy that is absent is the TLA+ string
\* "": the code reads these options only through || and !, which treat
\* undefined, null and "" alike.
Or(x, y) == IF x # "" THEN x ELSE y

\* String.prototype.toUpperCase on the country codes of the model
toUpperCase(s) ==
  CASE s = "us" -> "US"
    [] s = "de" -> "DE"
    [] OTHER -> s

\* the literal token ${session}
SessionToken == <<"$","{","s","e","s","s","i","o","n","}">>

\* does pat occur in s at position i (1-based)
MatchesAt(s, pat, i) ==
  /\ i + Len(pat) - 1 <= Len(s)
  /\ \A j \in 1..Len(pat) : s[i + j - 1] = pat[j]

Contains(s, pat) == \E i \in 1..Len(s) : MatchesAt(s, pat, i)

\* the grave accent character (U+0060), which a TLA+ string cannot hold
Grave == "grave"

RECURSIVE GetSubstitutionFrom(_, _, _, _, _)
\* GetSubstitution of ECMAScript for a string pattern (no captures): in the
\* replacement text, $$ is a dollar, $& the match, $ and a grave accent the text before the
\* match, $' the text after it; any other character stands for itself.
GetSubstitutionFrom(rep, k, matched, before, after) ==
  IF k > Len(rep) THEN <<>>
  ELSE IF rep[k] = "$" /\ k < Len(rep) /\ rep[k + 1] = "$"
       THEN <<"$">> \o GetSubstitutionFrom(rep, k + 2, matched, before, after)
  ELSE IF rep[k] = "$" /\ k < Len(rep) /\ rep[k + 1] = "&"
       THEN matched \o GetSubstitutionFrom(rep, k + 2, matched, before, after)
  ELSE IF rep[k] = "$" /\ k < Len(rep) /\ rep[k + 1] = Grave
       THEN before \o GetSubstitutionFrom(rep, k + 2, matched, before, after)
  ELSE IF rep[k] = "$" /\ k < Len(rep) /\ rep[k + 1] = "'"
       THEN after \o GetSubstitutionFrom(rep, k + 2, matched, before, after)
  ELSE <<rep[k]>> \o GetSubstitutionFrom(rep, k + 1, matched, before, after)

RECURSIVE ReplaceAllFrom(_, _, _, _)
ReplaceAllFrom(s, pat, rep, i) ==
  IF i > Len(s) THEN <<>>
  ELSE IF MatchesAt(s, pat, i)
       THEN GetSubstitutionFrom(rep, 1, pat, SubSeq(s, 1, i - 1),
                                SubSeq(s, i + Len(pat), Len(s)))
            \o ReplaceAllFrom(s, pat, rep, i + Len(pat))
       ELSE <<s[i]>> \o ReplaceAllFrom(s, pat, rep, i + 1)

\* String.prototype.replaceAll(pat, rep) with a non-empty string pattern
replaceAll(s, pat, rep) == ReplaceAllFrom(s, pat, rep, 1)

\* applySessionToken's rep: strings are rewritten, other values pass
SessionRep(v, session) ==
  IF v = Undefined THEN v ELSE replaceAll(v, SessionToken, session)

\* cfg.f of a JavaScript object: undefined when the key is absent
Field(o, f) == IF f \in DOMAIN o THEN o[f] ELSE Undefined

\* applySessionToken: { ...cfg } when the session is falsy, else the five
\* fields protocol, host, port, username, password (any other key of cfg,
\* auth included, is not copied).  Every endpoint of the model has a
\* protocol and a port.
applySessionToken(cfg, session) ==
  IF Falsy(session) THEN cfg
  ELSE [protocol |-> cfg.protocol,
        host     |-> SessionRep(Field(cfg, "host"), session),
        port     |-> cfg.port,
        username |-> SessionRep(Field(cfg, "username"), session),
        password |-> SessionRep(Field(cfg, "password"), session)]

(***************************************************************************)
(* Rationals [n, d] with d > 0.  A weight read from a JavaScript object    *)
(* may also be NaN or not a number ([n |-> 0, d |-> 0]) or an infinity     *)
(* ([n |-> 1, d |-> 0], [n |-> -1, d |-> 0]).                              *)
(***************************************************************************)
Abs(x) == IF x < 0 THEN -x ELSE x

RECURSIVE Gcd(_, _)
Gcd(a, b) == IF b = 0 THEN a ELSE Gcd(b, a % b)

Rat(n, d) == LET g == Gcd(Abs(n), d) IN [n |-> n \div g, d |-> d \div g]

RatAdd(a, b) == Rat(a.n * b.d + b.n * a.d, a.d * b.d)

RatSub(a, b) == Rat(a.n * b.d - b.n * a.d, a.d * b.d)

RatMul(a, b) == Rat(a.n * b.n, a.d * b.d)

\* a / b for b > 0
RatDiv(a, b) == Rat(a.n * b.d, a.d * b.n)

\* Math.max(0, Math.min(1, Number(n) || 0))
clamp01(w) ==
  IF w.d = 0 THEN (IF w.n > 0 THEN Rat(1, 1) ELSE Rat(0, 1))
  ELSE IF w.n <= 0 THEN Rat(0, 1)
  ELSE IF w.n >= w.d THEN Rat(1, 1)
  ELSE Rat(w.n, w.d)

(***************************************************************************)
(* A JavaScript object with string keys is the sequence of its             *)
(* [key, value] pairs in Object.keys order (insertion order: no key of the *)
(* model is an integer index); its keys are pairwise distinct.             *)
(***************************************************************************)
KV(k, v) == [key |-> k, value |-> v]

ObjKeys(o) == [i \in 1..Len(o) |-> o[i].key]

ObjHas(o, k) == \E i \in 1..Len(o) : o[i].key = k

ObjGet(o, k) == o[CHOOSE i \in 1..Len(o) : o[i].key = k].value

RECURSIVE SumClamped(_, _)
\* let sum = 0; for (const k of keys) sum += clamp01(dist[k])
SumClamped(dist, i) ==
  IF i = 0 THEN Rat(0, 1)
  ELSE RatAdd(SumClamped(dist, i - 1), clamp01(dist[i].value))

\* a variant that divides the weights as given, not clamped to [0, 1]
normalizeDistributionUnclamped(dist) ==
  IF Len(dist) = 0 THEN <<>>
  ELSE LET sum == SumClamped(dist, Len(dist)) IN
       IF sum.n <= 0
       THEN [i \in 1..Len(dist) |-> [key |-> dist[i].key, value |-> Rat(1, Len(dist))]]
       ELSE [i \in 1..Len(dist) |->
               [key |-> dist[i].key,
                value |-> IF dist[i].value.d = 0 THEN clamp01(dist[i].value)
                          ELSE RatDiv(dist[i].value, sum)]]

\* a variant that divides by the number of keys, not by the sum
normalizeDistributionByCount(dist) ==
  [i \in 1..Len(dist) |->
     [key |-> dist[i].key, value |-> RatDiv(clamp01(dist[i].value), Rat(Len(dist), 1))]]

\* a variant that has no uniform fallback
normalizeDistributionNoUniform(dist) ==
  IF Len(dist) = 0 THEN <<>>
  ELSE LET sum == SumClamped(dist, Len(dist)) IN
       [i \in 1..Len(dist) |->
          [key |-> dist[i].key,
           value |-> IF sum.n <= 0 THEN Rat(0, 1) ELSE RatDiv(clamp01(dist[i].value), sum)]]

normalizeDistribution(dist) ==
  IF Len(dist) = 0 THEN <<>>
  ELSE LET sum == SumClamped(dist, Len(dist)) IN
       IF sum.n <= 0
       THEN [i \in 1..Len(dist) |-> [key |-> dist[i].key, value |-> Rat(1, Len(dist))]]
       ELSE [i \in 1..Len(dist) |->
               [key |-> dist[i].key, value |-> RatDiv(clamp01(dist[i].value), sum)]]

\* Math.max(0, e.weight || 0)
NonNegWeight(w) == IF w.n <= 0 THEN Rat(0, 1) ELSE w

RECURSIVE SumWeights(_, _)
\* weights.reduce((a, b) => a + b, 0)
SumWeights(entries, i) ==
  IF i = 0 THEN Rat(0, 1)
  ELSE RatAdd(SumWeights(entries, i - 1), NonNegWeight(entries[i].weight))

RECURSIVE WeightedScan(_, _, _)
\* for (i...) if ((r -= weights[i]) <= 0) return entries[i].key; then the last key
WeightedScan(entries, i, r) ==
  IF i > Len(entries) THEN entries[Len(entries)].key
  ELSE LET r2 == RatSub(r, NonNegWeight(entries[i].weight)) IN
       IF r2.n <= 0 THEN entries[i].key ELSE WeightedScan(entries, i + 1, r2)

\* weightedPick ("" is its null), its Math.random() being rnd / RandDen
weightedPick(entries, rnd) ==
  LET total == SumWeights(entries, Len(entries)) IN
  IF total.n <= 0
  THEN (IF Len(entries) > 0 THEN entries[1].key ELSE "")
  ELSE WeightedScan(entries, 1, RatMul(Rat(rnd, RandDen), total))

\* Math.floor(Math.random() * n), Math.random() being rnd / RandDen
RandomIndex(rnd, n) == (rnd * n) \div RandDen

\* a variant of pickCountry without the all-zero case: the weighted pick alone
pickCountryWeightedOnly(pools, dist, rnd) ==
  LET countries == ObjKeys(pools)
      weighted  == [i \in 1..Len(countries) |->
                      [key    |-> countries[i],
                       weight |-> IF ObjHas(dist, countries[i])
                                  THEN ObjGet(dist, countries[i]) ELSE Rat(0, 1)]]
  IN IF Len(countries) = 0 THEN "" ELSE weightedPick(weighted, rnd)

\* ProxyDirector._pickCountry ("" is its null), with its one Math.random() draw
pickCountry(pools, dist, rnd) ==
  LET countries == ObjKeys(pools)
      weighted  == [i \in 1..Len(countries) |->
                      [key    |-> countries[i],
                       weight |-> IF ObjHas(dist, countries[i])
                                  THEN ObjGet(dist, countries[i]) ELSE Rat(0, 1)]]
      allZero   == \A i \in 1..Len(weighted) : weighted[i].weight.n <= 0
  IN IF Len(countries) = 0 THEN ""
     ELSE IF allZero THEN countries[RandomIndex(rnd, Len(countries)) + 1]
     ELSE weightedPick(weighted, rnd)

(***************************************************************************)
(* ProxyDirector.                                                          *)
(***************************************************************************)
\* a pool slot holding null
NullSlot == [null |-> TRUE]

\* Array.isArray(cRec[t]) && cRec[t].length (every value of a country record
\* of the model is an array)
HasPool(cRec, t) == ObjHas(cRec, t) /\ Len(ObjGet(cRec, t)) > 0

\* firstAvailableType: the first populated type of the priority order, else the
\* first populated key of the record, else null (""); keys[0] || null gives
\* null for an empty-string key as well
firstAvailableType(cRec) ==
  LET order == <<"res_rotating", "res_static", "dc_rotating", "dc_static">>
      keys  == SelectSeq(ObjKeys(cRec), LAMBDA k : HasPool(cRec, k))
  IN IF \E i \in 1..Len(order) : HasPool(cRec, order[i])
     THEN order[CHOOSE i \in 1..Len(order) :
                  /\ HasPool(cRec, order[i])
                  /\ \A j \in 1..(i - 1) : ~HasPool(cRec, order[j])]
     ELSE IF Len(keys) > 0 THEN Or(keys[1], "") ELSE ""

\* the template literal ${country}:${poolType}
RRKey(country, poolType) == country \o ":" \o poolType

\* this._rr[key] ?? 0
RRGet(cursors, key) == IF key \in DOMAIN cursors THEN cursors[key] ELSE 0

\* a variant of MapSet that keeps the written key alone
MapSetAlone(m, key, v) == [k \in {key} |-> v]

\* m[key] = v, m.set(key, v) on a map held as a function
MapSet(m, key, v) == [k \in DOMAIN m \cup {key} |-> IF k = key THEN v ELSE m[k]]

\* a variant of _nextRR in which the caller read the cursor before any
\* other caller's write: it advances from the initial cursor
nextRRStale(cursors, key, len) == MapSet(cursors, key, 1 % len)

\* a variant of _nextRR that advances every cursor
nextRRAll(cursors, key, len) ==
  [k \in DOMAIN cursors \cup {key} |-> (RRGet(cursors, k) + 1) % len]

\* ProxyDirector._nextRR: the cursors after the call; the index it returns is
\* the new cursor of the key
nextRR(cursors, key, len) == MapSet(cursors, key, (RRGet(cursors, key) + 1) % len)

\* a variant of ResolveCountry that answers a country the catalog does not
\* hold with the catalog's first country
ResolveCountrySubstitute(d, sel, r1) ==
  LET keys == ObjKeys(d.catalog)
      asked == toUpperCase(Or(sel.country,
                              Or(pickCountry(d.catalog, d.countryDistribution, r1), "")))
  IN IF ~ObjHas(d.catalog, asked) /\ Len(keys) > 0 THEN keys[1] ELSE asked

\* country resolution of pickProxy:
\* (sel.country || this._pickCountry() || Object.keys(this._pools)[0] || "").toUpperCase()
ResolveCountry(d, sel, r1) ==
  LET keys == ObjKeys(d.catalog)
  IN toUpperCase(Or(sel.country,
                    Or(pickCountry(d.catalog, d.countryDistribution, r1),
                       Or(IF Len(keys) > 0 THEN keys[1] ELSE "", ""))))

\* type resolution of pickProxy: the desired type when its pool is populated,
\* else firstAvailableType
ResolveType(d, sel, country) ==
  LET cRec        == ObjGet(d.catalog, country)
      desiredType == Or(sel.type, d.defaultType)
  IN IF HasPool(cRec, desiredType) THEN desiredType ELSE firstAvailableType(cRec)

\* sel.strategy || this.defaultStrategy
ResolveStrategy(d, sel) == Or(sel.strategy, d.defaultStrategy)

\* sel.sessionKey || "" (the sticky table's key, String(...) of it, and the
\* session given to applySessionToken)
SessionKeyOf(sel) == IF Truthy(sel.sessionKey) THEN sel.sessionKey ELSE <<>>

\* a variant of SelectIndex that never reads the sticky table: a sticky call
\* with a session key draws and stores a fresh index each time
SelectIndexRedraw(d, sel, country, poolType, len, strategy, r2) ==
  IF strategy = "roundRobin" \/ (strategy = "sticky" /\ SessionKeyOf(sel) = <<>>)
  THEN LET cursors == nextRR(d.rr, RRKey(country, poolType), len)
       IN [index |-> cursors[RRKey(country, poolType)], rr |-> cursors, sticky |-> d.sticky]
  ELSE IF strategy = "sticky"
  THEN [index |-> RandomIndex(r2, len), rr |-> d.rr,
        sticky |-> MapSet(d.sticky, SessionKeyOf(sel),
                          [country |-> country, type |-> poolType,
                           index |-> RandomIndex(r2, len)])]
  ELSE [index |-> RandomIndex(r2, len), rr |-> d.rr, sticky |-> d.sticky]

\* a variant of SelectIndex in which a sticky call without a session key
\* draws its index instead of advancing the cursor
SelectIndexKeylessDraws(d, sel, country, poolType, len, strategy, r2) ==
  IF strategy = "roundRobin"
  THEN LET cursors == nextRR(d.rr, RRKey(country, poolType), len)
       IN [index |-> cursors[RRKey(country, poolType)], rr |-> cursors, sticky |-> d.sticky]
  ELSE IF strategy = "sticky" /\ SessionKeyOf(sel) # <<>>
  THEN LET key == SessionKeyOf(sel)
       IN IF /\ key \in DOMAIN d.sticky
             /\ d.sticky[key].country = country
             /\ d.sticky[key].type = poolType
             /\ d.sticky[key].index < len
          THEN [index |-> d.sticky[key].index, rr |-> d.rr, sticky |-> d.sticky]
          ELSE [index |-> RandomIndex(r2, len), rr |-> d.rr,
                sticky |-> MapSet(d.sticky, key,
                                  [country |-> country, type |-> poolType,
                                   index |-> RandomIndex(r2, len)])]
  ELSE [index |-> RandomIndex(r2, len), rr |-> d.rr, sticky |-> d.sticky]

\* index selection of pickProxy: the index, the cursors and the sticky table after it
SelectIndex(d, sel, country, poolType, len, strategy, r2) ==
  IF strategy = "random"
  THEN [index |-> RandomIndex(r2, len), rr |-> d.rr, sticky |-> d.sticky]
  ELSE IF strategy = "roundRobin" \/ (strategy = "sticky" /\ SessionKeyOf(sel) = <<>>)
  THEN LET cursors == nextRR(d.rr, RRKey(country, poolType), len)
       IN [index |-> cursors[RRKey(country, poolType)], rr |-> cursors, sticky |-> d.sticky]
  ELSE IF strategy = "sticky"
  THEN LET key == SessionKeyOf(sel)
       IN IF /\ key \in DOMAIN d.sticky
             /\ d.sticky[key].country = country
             /\ d.sticky[key].type = poolType
             /\ d.sticky[key].index < len
          THEN [index |-> d.sticky[key].index, rr |-> d.rr, sticky |-> d.sticky]
          ELSE LET index == RandomIndex(r2, len)
               IN [index |-> index, rr |-> d.rr,
                   sticky |-> MapSet(d.sticky, key,
                                     [country |-> country, type |-> poolType, index |-> index])]
  ELSE [index |-> RandomIndex(r2, len), rr |-> d.rr, sticky |-> d.sticky]

\* a variant of Thrown that returns a placeholder proxy instead of throwing
ThrownAsPlaceholder(d, error) ==
  [catalog |-> d.catalog, rr |-> d.rr, sticky |-> d.sticky,
   out |-> [kind |-> "ok",
            proxyConfig |-> [protocol |-> "http", host |-> <<>>, port |-> 0],
            country |-> "", type |-> "", strategy |-> "",
            provider |-> Undefined, notes |-> Undefined]]

\* a call that throws before it selected an index
Thrown(d, error) ==
  [catalog |-> d.catalog, rr |-> d.rr, sticky |-> d.sticky,
   out |-> [kind |-> "throw", error |-> error]]

\* a variant of PoolsAfter that stores the expanded endpoint in the slot
PoolsAfterStoring(d, country, poolType, index, proxyConfig) ==
  [i \in 1..Len(d.catalog) |->
     IF d.catalog[i].key # country THEN d.catalog[i]
     ELSE KV(country,
             [j \in 1..Len(d.catalog[i].value) |->
                IF d.catalog[i].value[j].key # poolType THEN d.catalog[i].value[j]
                ELSE KV(poolType,
                        [k \in 1..Len(d.catalog[i].value[j].value) |->
                           IF k # index + 1 THEN d.catalog[i].value[j].value[k]
                           ELSE [d.catalog[i].value[j].value[k]
                                   EXCEPT !.endpoint = proxyConfig]])])]

\* this._pools after a pick of pool[index]: applySessionToken builds a new
\* object from the endpoint and pickProxy assigns nothing to the pools
PoolsAfter(d, country, poolType, index, proxyConfig) == d.catalog

\* ProxyDirector.pickProxy(sel), its two Math.random() draws being r1 / RandDen
\* (country) and r2 / RandDen (index): the catalog, the cursors and the
\* sticky table after the call, and what the call returns or throws.  The
\* field slot of out is not part of the returned value: it records the pool,
\* the strategy and the index the call selected.
pickProxy(d, sel, r1, r2) ==
  LET country == ResolveCountry(d, sel, r1)
  IN IF country = "" \/ ~ObjHas(d.catalog, country)
     THEN Thrown(d, "no countries available in catalog")
     ELSE
     LET poolType == ResolveType(d, sel, country)
     IN IF poolType = "" THEN Thrown(d, "no proxy types present")
        ELSE
        LET pool     == ObjGet(ObjGet(d.catalog, country), poolType)
            strategy == ResolveStrategy(d, sel)
            chosen   == SelectIndex(d, sel, country, poolType, Len(pool), strategy, r2)
            entry    == pool[chosen.index + 1]
            slot     == [country |-> country, type |-> poolType, strategy |-> strategy,
                         index |-> chosen.index]
        IN IF Len(pool) = 0 THEN Thrown(d, "empty pool")
           ELSE IF "null" \in DOMAIN entry
           THEN [catalog |-> d.catalog, rr |-> chosen.rr, sticky |-> chosen.sticky,
                 out |-> [kind |-> "throw", error |-> "empty proxy slot", slot |-> slot]]
           ELSE IF "endpoint" \notin DOMAIN entry
           THEN [catalog |-> d.catalog, rr |-> chosen.rr, sticky |-> chosen.sticky,
                 out |-> [kind |-> "throw", error |-> "missing endpoint", slot |-> slot]]
           ELSE [catalog |-> PoolsAfter(d, country, poolType, chosen.index,
                                        applySessionToken(entry.endpoint, SessionKeyOf(sel))),
                 rr |-> chosen.rr, sticky |-> chosen.sticky,
                 out |-> [kind        |-> "ok",
                          proxyConfig |-> applySessionToken(entry.endpoint, SessionKeyOf(sel)),
                          country     |-> country,
                          type        |-> poolType,
                          strategy    |-> strategy,
                          provider    |-> Field(entry, "provider"),
                          notes       |-> Field(entry, "notes"),
                          slot        |-> slot]]

(***************************************************************************)
(* The catalogs and constructor arguments the Director is built from.      *)
(***************************************************************************)
Digits == <<"0","1","2","3","4","5","6","7","8","9">>

\* the i-th entry of a provider's pool, in the shape sanitizeEntry stores (auth
\* is username:password); the username is a template
MkEntry(p, i) ==
  [provider |-> <<p>>,
   endpoint |-> [protocol |-> "http",
                 host     |-> <<"h", Digits[i + 1]>>,
                 port     |-> 80,
                 username |-> <<"u">> \o SessionToken,
                 password |-> <<"p">>,
                 auth     |-> <<"u">> \o SessionToken \o <<":", "p">>]]

\* an entry of a raw catalog: notes, no credentials
RawEntry(p, i) ==
  [provider |-> <<p>>,
   notes    |-> <<"n", Digits[i + 1]>>,
   endpoint |-> [protocol |-> "socks5", host |-> <<"r", Digits[i + 1]>>, port |-> 1080]]

\* a slot of a raw catalog that has no endpoint
NoEndpoint == [provider |-> <<"X">>]

Pool(p, n) == [i \in 1..n |-> MkEntry(p, i)]

\* what ProxyCatalogBuilder.build() can return: uppercase countries, the four
\* types, sanitized entries, a country focused without entries
BuiltCatalog ==
  <<KV("US", <<KV("res_rotating", Pool("W", MaxPoolLen))>>),
    KV("DE", <<KV("dc_static", Pool("G", 1))>>),
    KV("FR", <<>>)>>

\* a built catalog whose country holds several types, inserted out of priority order
TypesCatalog ==
  <<KV("US", <<KV("dc_static", Pool("D", 1)), KV("dc_rotating", Pool("R", 1))>>)>>

\* a raw JSON catalog: a lowercase country key, a type outside the four, an
\* empty pool, a null slot and a slot without endpoint
RawCatalog ==
  <<KV("us", <<KV("res_rotating", <<RawEntry("L", 1)>>)>>),
    KV("DE", <<KV("res_static", <<>>),
               KV("mobile", <<NullSlot, RawEntry("M", 2), NoEndpoint>>)>>)>>

\* a raw JSON catalog whose keys hold colons
ColonCatalog ==
  <<KV("A", <<KV("B:c", Pool("Y", 2))>>),
    KV("A:B", <<KV("c", Pool("Z", 1))>>)>>

\* a raw JSON catalog with an empty type key
EmptyKeyCatalog == <<KV("US", <<KV("", <<RawEntry("E", 1)>>)>>)>>

\* the country distributions given to the constructor and to setCountryDistribution
Distributions ==
  { <<>>,
    <<KV("US", [n |-> 0, d |-> 1]), KV("DE", [n |-> 3, d |-> 1]), KV("FR", [n |-> 1, d |-> 2]),
      KV("ZZ", [n |-> 0, d |-> 0])>> }

\* the arguments of new ProxyDirector({catalog, countryDistribution, defaultType, defaultStrategy})
Constructions ==
  { [catalog |-> BuiltCatalog, countryDistribution |-> dist,
     defaultType |-> "res_rotating", defaultStrategy |-> "random"] : dist \in Distributions }
  \cup
  { [catalog |-> TypesCatalog, countryDistribution |-> <<>>,
     defaultType |-> "res_rotating", defaultStrategy |-> "sticky"],
    [catalog |-> RawCatalog, countryDistribution |-> <<>>,
     defaultType |-> "dc_static", defaultStrategy |-> "roundRobin"],
    [catalog |-> ColonCatalog, countryDistribution |-> <<>>,
     defaultType |-> "res_rotating", defaultStrategy |-> "random"],
    [catalog |-> EmptyKeyCatalog, countryDistribution |-> <<>>,
     defaultType |-> "res_rotating", defaultStrategy |-> "random"],
    [catalog |-> <<>>, countryDistribution |-> <<KV("US", [n |-> 1, d |-> 1])>>,
     defaultType |-> "res_rotating", defaultStrategy |-> "random"] }

Range(f) == {f[x] : x \in DOMAIN f}

\* the pools of a catalog: the (country, type) pairs that hold a non-empty array
PoolsOf(cat) ==
  UNION {{<<cat[i].key, cat[i].value[j].key>> :
            j \in {j \in 1..Len(cat[i].value) : Len(cat[i].value[j].value) > 0}} :
         i \in 1..Len(cat)}

PoolLen(cat, pool) == Len(ObjGet(ObjGet(cat, pool[1]), pool[2]))

SessA == <<"a">>

SessB == <<"b">>

\* the session keys given to sticky calls
SessionKeys == {SessA}

\* the strategy and sessionKey options given to pickProxy
StrategyOptions ==
  { [strategy |-> "",           sessionKey |-> Undefined],
    [strategy |-> "fastest",    sessionKey |-> SessB],
    [strategy |-> "roundRobin", sessionKey |-> Undefined],
    [strategy |-> "sticky",     sessionKey |-> Undefined],
    [strategy |-> "sticky",     sessionKey |-> <<>>],
    [strategy |-> "sticky",     sessionKey |-> SessA] }

\* the selection options given to pickProxy on a catalog: one of its
\* countries (as written, or in lower case) or a country it does not hold,
\* with or without a type; or no country and no type
Selections(cat) ==
  { [country |-> co, type |-> ty, strategy |-> so.strategy, sessionKey |-> so.sessionKey] :
      co \in {"us", "ZZ"} \cup Range(ObjKeys(cat)),
      ty \in {"", "dc_static"},
      so \in StrategyOptions }
  \cup
  { [country |-> "", type |-> "", strategy |-> so.strategy, sessionKey |-> so.sessionKey] :
      so \in StrategyOptions }

Draws == 0..(RandDen - 1)

\* the Director as the record of its fields
Director ==
  [catalog |-> catalog, countryDistribution |-> countryDistribution,
   defaultType |-> defaultType, defaultStrategy |-> defaultStrategy,
   rr |-> rr, sticky |-> sticky]

\* deepClone, JSON.parse(JSON.stringify(o)), of a catalog: the same countries,
\* types and slots, every key whose value is undefined dropped (protocol and
\* port are never undefined in the model)
CloneObject(o) ==
  [f \in {f \in DOMAIN o : f \in {"protocol", "port"} \/ o[f] # Undefined} |-> o[f]]

CloneEntry(e) ==
  IF "null" \in DOMAIN e THEN e
  ELSE LET top == CloneObject([f \in DOMAIN e \ {"endpoint"} |-> e[f]])
       IN IF "endpoint" \in DOMAIN e
          THEN [f \in DOMAIN top \cup {"endpoint"} |->
                  IF f = "endpoint" THEN CloneObject(e.endpoint) ELSE top[f]]
          ELSE top

deepClone(cat) ==
  [i \in 1..Len(cat) |->
     KV(cat[i].key,
        [j \in 1..Len(cat[i].value) |->
           KV(cat[i].value[j].key,
              [k \in 1..Len(cat[i].value[j].value) |->
                 CloneEntry(cat[i].value[j].value[k])])])]

\* the input the session expander holds while the Director runs
IdleTok == [cfg |-> MkEntry("W", 1).endpoint, session |-> <<>>]

\* no builder has been made
IdleBuilder ==
  /\ builderCat = <<>>
  /\ currentCountry = ""
  /\ built = <<>>
  /\ builderLast = [op |-> "new", kind |-> "ok", appended |-> 0]

\* neither normalizeDistribution nor the loader is being called
IdleFn ==
  /\ distIn = <<>>
  /\ distOut = <<>>
  /\ jsonIn = <<>>
  /\ poster = <<>>

\* new ProxyDirector(cfg)
Init ==
  /\ \E cfg \in Constructions :
       /\ catalog = deepClone(cfg.catalog)
       /\ countryDistribution = normalizeDistribution(cfg.countryDistribution)
       /\ defaultType = cfg.defaultType
       /\ defaultStrategy = cfg.defaultStrategy
       /\ callerCatalog = cfg.catalog
  /\ rr = <<>>
  /\ sticky = <<>>
  /\ rrPrev = [p \in PoolsOf(catalog) |-> -1]
  /\ rrCalls = [p \in PoolsOf(catalog) |-> 0]
  /\ stickySeen = [p \in PoolsOf(catalog) |-> -1]
  /\ stickyLast = [k \in SessionKeys |-> <<>>]
  /\ lastCall = [op |-> "new", kind |-> "ok", error |-> "", from |-> "", drawn |-> FALSE]
  /\ tokIn = IdleTok
  /\ tokOut = <<>>
  /\ IdleBuilder
  /\ IdleFn

\* did the call choose its index by the round-robin cursor
ByCursor(sel, out) ==
  /\ "slot" \in DOMAIN out
  /\ \/ out.slot.strategy = "roundRobin"
     \/ out.slot.strategy = "sticky" /\ Falsy(sel.sessionKey)

\* did the call choose its index by the sticky table
BySession(sel, out) ==
  /\ "slot" \in DOMAIN out
  /\ out.slot.strategy = "sticky"
  /\ Truthy(sel.sessionKey)

\* where the call took its index from: the cursor (roundRobin), the cursor
\* for want of a session key (keyless), the sticky table's entry (table),
\* a Math.random() draw (draw), or nowhere, having thrown before
ChosenFrom(d, sel, res) ==
  IF "slot" \notin DOMAIN res.out THEN ""
  ELSE IF res.out.slot.strategy = "roundRobin" THEN "cursor"
  ELSE IF ByCursor(sel, res.out) THEN "keyless"
  ELSE IF /\ BySession(sel, res.out)
          /\ sel.sessionKey \in DOMAIN d.sticky
          /\ res.sticky = d.sticky THEN "table"
  ELSE "draw"

\* the draws a call can consume: the country draw when no country is given,
\* the index draw unless the round-robin cursor gives the index
CountryDraws(sel) == IF sel.country # "" THEN {0} ELSE Draws

IndexDraws(d, sel) ==
  IF \/ ResolveStrategy(d, sel) = "roundRobin"
     \/ ResolveStrategy(d, sel) = "sticky" /\ Falsy(sel.sessionKey)
  THEN {0} ELSE Draws

\* director.pickProxy(sel)
PickProxy ==
  \E sel \in Selections(catalog) :
    \E r1 \in CountryDraws(sel), r2 \in IndexDraws(Director, sel) :
    \E res \in {pickProxy(Director, sel, r1, r2)} :
      LET out  == res.out
          pool == <<out.slot.country, out.slot.type>>
      IN /\ catalog' = res.catalog
         /\ rr' = res.rr
         /\ sticky' = res.sticky
         /\ rrPrev' = IF ByCursor(sel, out)
                      THEN [rrPrev EXCEPT ![pool] = out.slot.index] ELSE rrPrev
         /\ rrCalls' = IF ByCursor(sel, out)
                       THEN [rrCalls EXCEPT ![pool] = (@ + 1) % PoolLen(catalog, pool)]
                       ELSE rrCalls
         /\ stickySeen' = IF BySession(sel, out) /\ sel.sessionKey = SessA
                          THEN [stickySeen EXCEPT ![pool] = out.slot.index]
                          ELSE stickySeen
         /\ stickyLast' = IF BySession(sel, out)
                          THEN [stickyLast EXCEPT ![sel.sessionKey] =
                                  <<[pool |-> pool, index |-> out.slot.index]>>]
                          ELSE stickyLast
         /\ lastCall' = [op |-> "pickProxy", kind |-> out.kind,
                         error |-> IF out.kind = "throw" THEN out.error ELSE "",
                         from |-> ChosenFrom(Director, sel, res),
                         drawn |-> sel.country = ""]
         /\ UNCHANGED <<countryDistribution, defaultType, defaultStrategy, tokVars,
                        builderVars, callerCatalog, fnVars>>

\* director.setCountryDistribution(dist)
SetCountryDistribution ==
  \E dist \in Distributions :
    /\ countryDistribution' = normalizeDistribution(dist)
    /\ UNCHANGED <<catalog, defaultType, defaultStrategy, rr, sticky,
                   rrPrev, rrCalls, stickySeen, stickyLast, lastCall, tokVars,
                   builderVars, callerCatalog, fnVars>>

Next == PickProxy \/ SetCountryDistribution

Spec == Init /\ [][Next]_vars

(***************************************************************************)
(* The session expander on its own: applySessionToken(cfg, session) over   *)
(* endpoints whose fields hold the token zero, one or two times, and over  *)
(* session strings with and without dollar signs.                          *)
(***************************************************************************)

\* field texts: no token, one token after a prefix, two tokens
Templates ==
  { <<"h">>, <<"h", "-">> \o SessionToken, SessionToken \o SessionToken }

\* the endpoints given to applySessionToken, with and without an auth field
Endpoints ==
  { [protocol |-> "http", host |-> h, port |-> 80, username |-> u, password |-> pw] :
      h \in Templates, u \in Templates \cup {Undefined}, pw \in {Undefined, SessionToken} }
  \cup
  { [protocol |-> "socks5", host |-> h, port |-> 1080, username |-> Undefined,
     password |-> Undefined, auth |-> <<"k", ":">> \o SessionToken] : h \in Templates }

\* the sessions given to applySessionToken
Sessions ==
  { Undefined, <<>>, <<"a">>, <<"a", "b">>, <<"$">>, <<"$", "$">>, <<"$", "&">>,
    <<"$", Grave>>, <<"$", "'">>, <<"a", "$", "$", "b">> }

\* a caller holds an endpoint and a session and has not called yet
InitExpand ==
  /\ catalog = <<>>
  /\ countryDistribution = <<>>
  /\ defaultType = "res_rotating"
  /\ defaultStrategy = "random"
  /\ rr = <<>>
  /\ sticky = <<>>
  /\ rrPrev = <<>>
  /\ rrCalls = <<>>
  /\ stickySeen = <<>>
  /\ stickyLast = [k \in SessionKeys |-> <<>>]
  /\ lastCall = [op |-> "new", kind |-> "ok", error |-> "", from |-> "", drawn |-> FALSE]
  /\ \E cfg \in Endpoints, session \in Sessions : tokIn = [cfg |-> cfg, session |-> session]
  /\ tokOut = <<>>
  /\ IdleBuilder
  /\ IdleFn
  /\ callerCatalog = <<>>

\* applySessionToken(cfg, session)
ApplySessionToken ==
  /\ tokOut = <<>>
  /\ tokOut' = <<applySessionToken(tokIn.cfg, tokIn.session)>>
  /\ UNCHANGED <<tokIn, directorVars, builderVars, callerCatalog, fnVars>>

NextExpand == ApplySessionToken

SpecExpand == InitExpand /\ [][NextExpand]_vars

(***************************************************************************)
(* ProxyCatalogBuilder: country, add, addMany, done, build.                *)
(***************************************************************************)

\* the number of entries the builder is given in all
MaxEntries == 3
\* the number of catalogs build() is asked for
MaxBuilds == 2

\* the four proxy types add accepts
ProxyTypes == {"res_rotating", "res_static", "dc_rotating", "dc_static"}

RECURSIVE ParseDigits(_, _)
\* the number a string of decimal digits denotes, read up to position i
ParseDigits(str, i) ==
  IF i = 0 THEN 0
  ELSE 10 * ParseDigits(str, i - 1)
       + (CHOOSE k \in 0..9 : Digits[k + 1] = str[i])

\* Number(v) of a port as written in an entry: a number, a string, null,
\* undefined, NaN or Infinity; fin tells whether the result is finite
Number(v) ==
  CASE v.t = "num"       -> [fin |-> TRUE, n |-> v.n]
    [] v.t = "null"      -> [fin |-> TRUE, n |-> 0]
    [] v.t = "str"       ->
         IF \A i \in 1..Len(v.s) : \E k \in 1..10 : Digits[k] = v.s[i]
         THEN [fin |-> TRUE, n |-> ParseDigits(v.s, Len(v.s))]
         ELSE [fin |-> FALSE, n |-> 0]
    [] OTHER             -> [fin |-> FALSE, n |-> 0]

RECURSIVE trim(_)
\* String.prototype.trim
trim(str) ==
  IF Len(str) > 0 /\ Head(str) = " " THEN trim(Tail(str))
  ELSE IF Len(str) > 0 /\ str[Len(str)] = " " THEN trim(SubSeq(str, 1, Len(str) - 1))
  ELSE str

\* a variant of sanitizeEntry that does not look at the port
sanitizeEntryAnyPort(entry) ==
  IF "null" \in DOMAIN entry THEN [ok |-> FALSE, error |-> "ProviderEntry must be an object"]
  ELSE IF Falsy(Field(entry, "provider"))
  THEN [ok |-> FALSE, error |-> "provider must be a non-empty string"]
  ELSE IF "endpoint" \notin DOMAIN entry
  THEN [ok |-> FALSE, error |-> "endpoint must be an object"]
  ELSE IF ~("protocol" \in DOMAIN entry.endpoint
            /\ entry.endpoint.protocol \in {"http", "https", "socks5"})
  THEN [ok |-> FALSE, error |-> "protocol"]
  ELSE IF Falsy(Field(entry.endpoint, "host")) THEN [ok |-> FALSE, error |-> "host"]
  ELSE [ok |-> TRUE,
        clean |-> [provider |-> trim(entry.provider),
                   endpoint |-> [protocol |-> entry.endpoint.protocol,
                                 host     |-> entry.endpoint.host,
                                 port     |-> IF "port" \in DOMAIN entry.endpoint
                                              THEN Number(entry.endpoint.port).n ELSE 0,
                                 username |-> Field(entry.endpoint, "username"),
                                 password |-> Field(entry.endpoint, "password"),
                                 auth     |-> Field(entry.endpoint, "auth")]]]

\* sanitizeEntry: the canonical entry, or the TypeError it throws.  A port
\* key that is absent reads as undefined; auth is computed from username and
\* password when it is not given and both are non-empty.
sanitizeEntry(entry) ==
  IF "null" \in DOMAIN entry THEN [ok |-> FALSE, error |-> "ProviderEntry must be an object"]
  ELSE IF Falsy(Field(entry, "provider"))
  THEN [ok |-> FALSE, error |-> "provider must be a non-empty string"]
  ELSE IF "endpoint" \notin DOMAIN entry
  THEN [ok |-> FALSE, error |-> "endpoint must be an object"]
  ELSE
  LET endpoint == entry.endpoint
      port     == IF "port" \in DOMAIN endpoint THEN Number(endpoint.port)
                  ELSE [fin |-> FALSE, n |-> 0]
      username == Field(endpoint, "username")
      password == Field(endpoint, "password")
      auth     == IF Field(endpoint, "auth") # Undefined THEN endpoint.auth
                  ELSE IF Truthy(username) /\ Truthy(password)
                  THEN username \o <<":">> \o password
                  ELSE Undefined
  IN IF ~("protocol" \in DOMAIN endpoint /\ endpoint.protocol \in {"http", "https", "socks5"})
     THEN [ok |-> FALSE, error |-> "protocol"]
     ELSE IF Falsy(Field(endpoint, "host")) THEN [ok |-> FALSE, error |-> "host"]
     ELSE IF ~port.fin \/ port.n <= 0 THEN [ok |-> FALSE, error |-> "port"]
     ELSE [ok |-> TRUE,
           clean |-> [provider |-> trim(entry.provider),
                      endpoint |-> [protocol |-> endpoint.protocol,
                                    host     |-> endpoint.host,
                                    port     |-> port.n,
                                    username |-> username,
                                    password |-> password,
                                    auth     |-> auth]]]

\* the builder as the operators below see it: _cat and _currentCountry (null
\* is "", which !this._currentCountry treats alike)
Builder == [cat |-> builderCat, currentCountry |-> currentCountry]

ThrownBy(msg) == [kind |-> "throw", error |-> msg]

\* country(code)
builderCountry(b, code) ==
  IF code = ""
  THEN [cat |-> b.cat, currentCountry |-> b.currentCountry,
        out |-> ThrownBy("country(code) requires a non-empty string.")]
  ELSE LET cc == toUpperCase(code)
       IN [cat |-> IF ObjHas(b.cat, cc) THEN b.cat ELSE Append(b.cat, KV(cc, <<>>)),
           currentCountry |-> cc,
           out |-> [kind |-> "ok", error |-> ""]]

\* (this._cat[cc][type] ||= []).push(clean)
PushInto(cat, cc, type, clean) ==
  [i \in 1..Len(cat) |->
     IF cat[i].key # cc THEN cat[i]
     ELSE LET cRec == cat[i].value
          IN KV(cc,
                IF ObjHas(cRec, type)
                THEN [j \in 1..Len(cRec) |->
                        IF cRec[j].key = type
                        THEN KV(type, Append(cRec[j].value, clean))
                        ELSE cRec[j]]
                ELSE Append(cRec, KV(type, <<clean>>)))]

\* a variant of add that stores the entry as it is given
addUnchecked(b, type, entry) ==
  IF b.currentCountry = ""
  THEN [cat |-> b.cat, currentCountry |-> b.currentCountry,
        out |-> ThrownBy("ProxyCatalogBuilder.add: call .country(code) first.")]
  ELSE IF type \notin ProxyTypes
  THEN [cat |-> b.cat, currentCountry |-> b.currentCountry,
        out |-> ThrownBy("Unknown proxy type")]
  ELSE [cat |-> PushInto(b.cat, b.currentCountry, type, entry),
        currentCountry |-> b.currentCountry,
        out |-> [kind |-> "ok", error |-> ""]]

\* add(type, entry)
add(b, type, entry) ==
  IF b.currentCountry = ""
  THEN [cat |-> b.cat, currentCountry |-> b.currentCountry,
        out |-> ThrownBy("ProxyCatalogBuilder.add: call .country(code) first.")]
  ELSE IF type \notin ProxyTypes
  THEN [cat |-> b.cat, currentCountry |-> b.currentCountry,
        out |-> ThrownBy("Unknown proxy type")]
  ELSE LET clean == sanitizeEntry(entry)
       IN IF ~clean.ok
          THEN [cat |-> b.cat, currentCountry |-> b.currentCountry,
                out |-> ThrownBy(clean.error)]
          ELSE [cat |-> PushInto(b.cat, b.currentCountry, type, clean.clean),
                currentCountry |-> b.currentCountry,
                out |-> [kind |-> "ok", error |-> ""]]

\* a variant of addMany that looks at every entry before it appends any
addManyAllOrNothing(b, type, entries) ==
  IF ~entries.isArray
  THEN [cat |-> b.cat, currentCountry |-> b.currentCountry,
        out |-> ThrownBy("addMany expects an array of ProviderEntry.")]
  ELSE LET bad == {i \in 1..Len(entries.items) :
                     add(b, type, entries.items[i]).out.kind = "throw"}
       IN IF bad = {}
          THEN LET RECURSIVE all(_)
                   all(i) == IF i = 0 THEN b
                             ELSE add(all(i - 1), type, entries.items[i])
               IN [cat |-> all(Len(entries.items)).cat,
                   currentCountry |-> b.currentCountry, out |-> [kind |-> "ok", error |-> ""]]
          ELSE [cat |-> b.cat, currentCountry |-> b.currentCountry,
                out |-> add(b, type, entries.items[CHOOSE i \in bad : \A j \in bad : i <= j]).out]

RECURSIVE addManyFrom(_, _, _, _)
\* for (const e of entries) this.add(type, e), from the i-th entry on; the
\* first add that throws ends the loop
addManyFrom(b, type, items, i) ==
  IF i > Len(items)
  THEN [cat |-> b.cat, currentCountry |-> b.currentCountry, out |-> [kind |-> "ok", error |-> ""]]
  ELSE LET res == add(b, type, items[i])
       IN IF res.out.kind = "throw" THEN res
          ELSE addManyFrom(res, type, items, i + 1)

\* addMany(type, entries)
addMany(b, type, entries) ==
  IF ~entries.isArray
  THEN [cat |-> b.cat, currentCountry |-> b.currentCountry,
        out |-> ThrownBy("addMany expects an array of ProviderEntry.")]
  ELSE addManyFrom(b, type, entries.items, 1)

\* done()
done(b) == [cat |-> b.cat, currentCountry |-> "", out |-> [kind |-> "ok", error |-> ""]]

\* a variant of build that hands out the builder's own _cat
buildLive(b) == [shared |-> TRUE, value |-> b.cat]

\* build(): a JSON deep clone of _cat, which shares nothing with the builder
build(b) == [shared |-> FALSE, value |-> deepClone(b.cat)]

\* the catalog an earlier build() returned, as it reads once _cat is cat
ReturnedCatalog(ret, cat) == IF ret.shared THEN cat ELSE ret.value

RECURSIVE SumPoolLens(_, _)
SumPoolLens(cat, pools) ==
  IF pools = {} THEN 0
  ELSE LET p == CHOOSE q \in pools : TRUE
       IN PoolLen(cat, p) + SumPoolLens(cat, pools \ {p})

\* the number of entries a catalog holds
EntryCount(cat) == SumPoolLens(cat, PoolsOf(cat))

\* entries sanitizeEntry accepts: one with credentials and notes, one whose
\* provider has blanks around it and whose port is a string
GoodA ==
  [provider |-> <<"A">>,
   notes    |-> <<"n">>,
   endpoint |-> [protocol |-> "http", host |-> <<"h", "1">>,
                 port |-> [t |-> "num", n |-> 80],
                 username |-> <<"u">> \o SessionToken, password |-> <<"p">>]]

GoodB ==
  [provider |-> <<" ", "B", " ">>,
   endpoint |-> [protocol |-> "socks5", host |-> <<"r", "1">>,
                 port |-> [t |-> "str", s |-> <<"8", "0">>]]]

\* GoodB with one field of its endpoint replaced
WithEndpoint(f, v) ==
  [GoodB EXCEPT !.endpoint = [g \in DOMAIN GoodB.endpoint \cup {f} |->
                                IF g = f THEN v ELSE GoodB.endpoint[g]]]

\* GoodB without one field of its endpoint
WithoutEndpoint(f) ==
  [GoodB EXCEPT !.endpoint = [g \in DOMAIN GoodB.endpoint \ {f} |-> GoodB.endpoint[g]]]

PortZero == WithEndpoint("port", [t |-> "num", n |-> 0])

\* the entries whose endpoint is missing or invalid: a null slot, no
\* endpoint, a protocol that is unknown or absent, a host that is empty or
\* absent, and a port that is 0, negative, NaN, Infinity, a text, null or
\* absent
BadEndpoints ==
  {NullSlot, NoEndpoint,
   WithEndpoint("protocol", "ftp"), WithoutEndpoint("protocol"),
   WithEndpoint("host", <<>>), WithoutEndpoint("host"),
   PortZero,
   WithEndpoint("port", [t |-> "num", n |-> -1]),
   WithEndpoint("port", [t |-> "nan"]),
   WithEndpoint("port", [t |-> "inf"]),
   WithEndpoint("port", [t |-> "str", s |-> <<"8", "x">>]),
   WithEndpoint("port", [t |-> "null"]),
   WithoutEndpoint("port")}

\* the entries given to add: two it accepts, one without provider, and the
\* bad endpoints
EntryInputs == {GoodA, GoodB, [endpoint |-> GoodA.endpoint]} \cup BadEndpoints

TypeInputs == {"res_rotating", "mobile", ""}

CountryInputs == {"us", ""}

Items(items) == [isArray |-> TRUE, items |-> items]

NotAnArray == [isArray |-> FALSE, items |-> <<>>]

ManyInputs ==
  {NotAnArray, Items(<<>>), Items(<<GoodA, GoodB>>), Items(<<GoodB, PortZero, GoodA>>),
   Items(<<NullSlot, GoodA>>), Items(<<GoodA, GoodB, NoEndpoint>>)}

\* the Director while only the builder runs
IdleDirector ==
  /\ catalog = <<>>
  /\ countryDistribution = <<>>
  /\ defaultType = "res_rotating"
  /\ defaultStrategy = "random"
  /\ rr = <<>>
  /\ sticky = <<>>
  /\ rrPrev = <<>>
  /\ rrCalls = <<>>
  /\ stickySeen = <<>>
  /\ stickyLast = [k \in SessionKeys |-> <<>>]
  /\ lastCall = [op |-> "new", kind |-> "ok", error |-> "", from |-> "", drawn |-> FALSE]
  /\ callerCatalog = <<>>

\* new ProxyCatalogBuilder()
InitBuilder ==
  /\ IdleDirector
  /\ tokIn = IdleTok
  /\ tokOut = <<>>
  /\ IdleBuilder
  /\ IdleFn

BuilderCall(op, res, n) ==
  /\ builderCat' = res.cat
  /\ currentCountry' = res.currentCountry
  /\ builderLast' = [op |-> op, kind |-> res.out.kind, appended |-> n]
  /\ UNCHANGED <<built, directorVars, tokVars, callerCatalog, fnVars>>

\* builder.country(code)
Country ==
  \E code \in CountryInputs :
    \E res \in {builderCountry(Builder, code)} : BuilderCall("country", res, 0)

\* builder.add(type, entry)
Add ==
  /\ EntryCount(builderCat) < MaxEntries
  /\ \E type \in TypeInputs, entry \in EntryInputs :
       \E res \in {add(Builder, type, entry)} :
         BuilderCall("add", res, EntryCount(res.cat) - EntryCount(builderCat))

\* builder.addMany(type, entries)
AddMany ==
  \E type \in TypeInputs, entries \in ManyInputs :
    \E res \in {addMany(Builder, type, entries)} :
      /\ EntryCount(res.cat) <= MaxEntries
      /\ BuilderCall("addMany", res, EntryCount(res.cat) - EntryCount(builderCat))

\* builder.done()
Done ==
  \E res \in {done(Builder)} : BuilderCall("done", res, 0)

\* builder.build()
Build ==
  /\ Len(built) < MaxBuilds
  /\ \E ret \in {build(Builder)} :
       built' = Append(built, [ret |-> ret,
                                atReturn |-> ReturnedCatalog(ret, builderCat)])
  /\ builderLast' = [op |-> "build", kind |-> "ok", appended |-> 0]
  /\ UNCHANGED <<builderCat, currentCountry, directorVars, tokVars, callerCatalog, fnVars>>

SpecBuilder == InitBuilder /\ [][Country \/ Add \/ AddMany \/ Done \/ Build]_vars

(***************************************************************************)
(* Round robin.                                                            *)
(***************************************************************************)

\* C1: for every (country,type) pool of length L, successive pickProxy calls
\* that take their index from the cursor on that pool (roundRobin, or sticky
\* without a session key) return the previous such call's index plus 1
\* modulo L, so that L consecutive calls return L pairwise distinct indices.
C1_SuccessiveIndices ==
  [][\A P \in PoolsOf(catalog) :
       (rrCalls'[P] # rrCalls[P] /\ rrPrev[P] # -1)
         => rrPrev'[P] = (rrPrev[P] + 1) % PoolLen(catalog, P)]_vars

\* C2: on a freshly constructed Director the k-th roundRobin call that
\* resolves to a pool of length L returns index (k-1) mod L; the first
\* returns index 0.
C2_FirstIndexZero ==
  \A P \in PoolsOf(catalog) :
    (lastCall.from = "cursor" /\ rrPrev[P] # -1)
      => rrPrev[P] = (rrCalls[P] + PoolLen(catalog, P) - 1) % PoolLen(catalog, P)

(***************************************************************************)
(* Sticky sessions.                                                        *)
(***************************************************************************)

\* C3 as stated: any two sticky calls with the same non-empty sessionKey and
\* the same resolved (country,type) return the same index, whatever calls
\* occur between them.
C3_SameIndexWhatever ==
  [][\A P \in PoolsOf(catalog) :
       stickySeen[P] # -1 => stickySeen'[P] = stickySeen[P]]_vars

\* C3 amended: two sticky calls with the same non-empty sessionKey and the
\* same resolved (country,type) return the same index provided no sticky call
\* with that sessionKey resolved to another (country,type) between them: a
\* sticky call returns the index of the latest sticky call of its sessionKey
\* when that call resolved to the same pool.
C3_SameIndexWhileOnPool ==
  [][\A k \in SessionKeys :
       (/\ stickyLast[k] # <<>>
        /\ stickyLast'[k] # <<>>
        /\ stickyLast'[k][1].pool = stickyLast[k][1].pool)
         => stickyLast'[k][1].index = stickyLast[k][1].index]_vars

\* a sticky call took its index from the table after the session had been
\* on two pools
C3_Witness ==
  /\ lastCall.from = "table"
  /\ \E P, Q \in PoolsOf(catalog) : P # Q /\ stickySeen[P] # -1 /\ stickySeen[Q] # -1

\* the selections with strategy sticky and no usable session key
KeylessSticky(cat) ==
  {sel \in Selections(cat) : sel.strategy = "sticky" /\ Falsy(sel.sessionKey)}

\* C4: a sticky call without a session key (absent or empty) returns the same
\* index and leaves the same Director state as the roundRobin call with the
\* same country and type from the same state: the cursor of the resolved
\* country:type key advanced by one, the sticky table unchanged.
C4_KeylessStickyIsRoundRobin ==
  \A sel \in KeylessSticky(catalog) :
    \A r1 \in CountryDraws(sel), r2 \in IndexDraws(Director, sel) :
    LET st == pickProxy(Director, sel, r1, r2)
        ro == pickProxy(Director, [sel EXCEPT !.strategy = "roundRobin"], r1, r2)
    IN /\ st.catalog = ro.catalog /\ st.rr = ro.rr /\ st.sticky = ro.sticky
       /\ st.out.kind = ro.out.kind
       /\ ("slot" \in DOMAIN st.out) = ("slot" \in DOMAIN ro.out)
       /\ "slot" \in DOMAIN st.out =>
            LET key == RRKey(st.out.slot.country, st.out.slot.type)
                len == PoolLen(catalog, <<st.out.slot.country, st.out.slot.type>>)
            IN /\ st.out.slot.index = ro.out.slot.index
               /\ st.sticky = sticky
               /\ DOMAIN st.rr = DOMAIN rr \cup {key}
               /\ \A k \in DOMAIN st.rr :
                    st.rr[k] = IF k = key THEN (RRGet(rr, key) + 1) % len ELSE rr[k]
               /\ st.out.slot.index = st.rr[key]

\* a keyless sticky call has just returned an entry of a pool of two or more
C4_Witness ==
  /\ lastCall.from = "keyless"
  /\ lastCall.kind = "ok"
  /\ \E P \in PoolsOf(catalog) : PoolLen(catalog, P) >= 2 /\ rrPrev[P] # -1

(***************************************************************************)
(* Country and type resolution.                                            *)
(***************************************************************************)

\* the populated type keys of a country record, in the record's order
PopulatedTypes(cRec) == SelectSeq(ObjKeys(cRec), LAMBDA k : HasPool(cRec, k))

\* the priority order of the types
TypeOrder == <<"res_rotating", "res_static", "dc_rotating", "dc_static">>

\* C5: for the resolved country, pickProxy returns the requested type (or
\* defaultType) whenever that type has a non-empty pool, otherwise the first
\* of res_rotating, res_static, dc_rotating, dc_static with a non-empty pool,
\* otherwise some other type key with a non-empty pool; it never throws while
\* the country has at least one non-empty pool.
C5_TypeFallbackNeverThrows ==
  \A sel \in Selections(catalog) :
    \A r1 \in CountryDraws(sel), r2 \in IndexDraws(Director, sel) :
      LET country == ResolveCountry(Director, sel, r1)
          cRec    == ObjGet(catalog, country)
          desired == Or(sel.type, defaultType)
          out     == pickProxy(Director, sel, r1, r2).out
      IN (ObjHas(catalog, country) /\ Len(PopulatedTypes(cRec)) > 0) =>
           /\ out.kind = "ok"
           /\ IF HasPool(cRec, desired) THEN out.type = desired
              ELSE IF \E i \in 1..Len(TypeOrder) : HasPool(cRec, TypeOrder[i])
              THEN \E i \in 1..Len(TypeOrder) :
                     /\ out.type = TypeOrder[i]
                     /\ HasPool(cRec, TypeOrder[i])
                     /\ \A j \in 1..(i - 1) : ~HasPool(cRec, TypeOrder[j])
              ELSE HasPool(cRec, out.type)

\* the selections that name a country
WithCountry(cat) == {sel \in Selections(cat) : sel.country # ""}

AllZero ==
  \A i \in 1..Len(catalog) :
    ObjHas(countryDistribution, catalog[i].key) => ObjGet(countryDistribution, catalog[i].key).n <= 0

\* C8: when every catalog country has weight zero in the normalized
\* distribution (absent countries included), each catalog country is a
\* possible outcome of the country resolution of a call without country.
C8_ZeroWeightsUniform ==
  AllZero =>
    \A i \in 1..Len(catalog) :
      \E r1 \in Draws : pickCountry(catalog, countryDistribution, r1) = catalog[i].key

\* a call without country has returned a pick from a catalog of several
\* countries whose weights are all zero
C8_Witness ==
  /\ AllZero
  /\ Len(catalog) >= 3
  /\ lastCall.op = "pickProxy"
  /\ lastCall.drawn
  /\ lastCall.kind = "ok"
  /\ \E r1, q1 \in Draws :
       pickCountry(catalog, countryDistribution, r1) # pickCountry(catalog, countryDistribution, q1)

(***************************************************************************)
(* Session expansion at selection time.                                    *)
(***************************************************************************)

\* the catalogs a Director is constructed with
ConstructedCatalogs == {deepClone(cfg.catalog) : cfg \in Constructions}

\* the endpoint stored in the slot a call selected
StoredEndpoint(slot) ==
  ObjGet(ObjGet(catalog, slot.country), slot.type)[slot.index + 1].endpoint

\* the selections that carry a session key
WithSession(cat) == {sel \in Selections(cat) : Truthy(sel.sessionKey)}

RECURSIVE LiteralReplaceFrom(_, _, _, _)
\* the reference: every occurrence of pat in s replaced with rep, taken as it is
LiteralReplaceFrom(s, pat, rep, i) ==
  IF i > Len(s) THEN <<>>
  ELSE IF MatchesAt(s, pat, i)
       THEN rep \o LiteralReplaceFrom(s, pat, rep, i + Len(pat))
       ELSE <<s[i]>> \o LiteralReplaceFrom(s, pat, rep, i + 1)

\* C10: the session expander equals the reference for every endpoint and
\* session: with an empty session it returns the endpoint with every field
\* unchanged; with a non-empty session it replaces every occurrence of the
\* token in host, username and password with the session string and leaves
\* protocol and port unchanged.
C10_ExpanderEqualsReference ==
  tokOut # <<>> =>
    LET cfg == tokIn.cfg
        session == tokIn.session
        out == tokOut[1]
    IN IF Falsy(session) THEN out = cfg
       ELSE /\ out.protocol = cfg.protocol
            /\ out.port = cfg.port
            /\ \A f \in {"host", "username", "password"} :
                 out[f] = IF cfg[f] = Undefined THEN Undefined
                          ELSE LiteralReplaceFrom(cfg[f], SessionToken, session, 1)

(***************************************************************************)
(* new ProxyDirector(cfg) and buildProxyDirectorFromJson(json), with the   *)
(* options as JSON carries them: a key is absent, null, a string or an     *)
(* object.                                                                 *)
(***************************************************************************)

JsNull == [t |-> "null"]

Str(s) == [t |-> "str", v |-> s]

Obj(o) == [t |-> "obj", v |-> o]

\* o.f is undefined or null
Nullish(o, f) == f \notin DOMAIN o \/ o[f] = JsNull

\* o.f || dflt for an option that is a string
StrOr(o, f, dflt) == IF Nullish(o, f) \/ o[f].v = "" THEN dflt ELSE o[f].v

\* a destructuring default: only an absent key takes it.  A null default
\* type or strategy is kept as "", which every later read treats like null.
StrDefault(o, f, dflt) ==
  IF f \notin DOMAIN o THEN dflt ELSE IF o[f] = JsNull THEN "" ELSE o[f].v

\* new ProxyDirector(cfg): the fields of the Director, or the TypeError of
\* Object.keys(null) in normalizeDistribution
NewProxyDirector(cfg) ==
  IF "countryDistribution" \in DOMAIN cfg /\ cfg.countryDistribution = JsNull
  THEN [kind |-> "throw", error |-> "TypeError"]
  ELSE [kind |-> "ok",
        catalog |-> IF Nullish(cfg, "catalog") THEN <<>> ELSE deepClone(cfg.catalog.v),
        countryDistribution |->
          IF "countryDistribution" \in DOMAIN cfg
          THEN normalizeDistribution(cfg.countryDistribution.v) ELSE <<>>,
        defaultType |-> StrDefault(cfg, "defaultType", "res_rotating"),
        defaultStrategy |-> StrDefault(cfg, "defaultStrategy", "random")]

\* a variant of the loader that hands json.distribution, json.defaultType
\* and json.defaultStrategy to the constructor as they are
buildProxyDirectorFromJsonAsGiven(json) ==
  IF json = JsNull \/ Nullish(json, "countries")
  THEN [kind |-> "throw", error |-> "countries is required"]
  ELSE LET cat      == deepClone(json.countries.v)
           given    == DOMAIN json \cap {"defaultType", "defaultStrategy"}
           director == NewProxyDirector(
                         [f \in {"catalog"} \cup given
                                \cup ({"countryDistribution"} \cap
                                      {IF "distribution" \in DOMAIN json
                                       THEN "countryDistribution" ELSE ""}) |->
                            CASE f = "catalog" -> Obj(cat)
                              [] f = "countryDistribution" -> json.distribution
                              [] OTHER -> json[f]])
       IN IF director.kind = "throw" THEN director
          ELSE [kind |-> "ok", director |-> director, catalog |-> cat]

\* buildProxyDirectorFromJson(json): { director, catalog }, or the Error it
\* throws
buildProxyDirectorFromJson(json) ==
  IF json = JsNull \/ Nullish(json, "countries")
  THEN [kind |-> "throw", error |-> "countries is required"]
  ELSE LET cat          == deepClone(json.countries.v)
           distribution == normalizeDistribution(
                             IF Nullish(json, "distribution") THEN <<>>
                             ELSE json.distribution.v)
           director     == NewProxyDirector(
                             [catalog |-> Obj(cat),
                              countryDistribution |-> Obj(distribution),
                              defaultType |-> Str(StrOr(json, "defaultType", "res_rotating")),
                              defaultStrategy |-> Str(StrOr(json, "defaultStrategy", "random"))])
       IN [kind |-> "ok", director |-> director, catalog |-> cat]

\* the variables of a Director that has just been constructed with fields d
FreshDirector(d) ==
  /\ catalog = d.catalog
  /\ countryDistribution = d.countryDistribution
  /\ defaultType = d.defaultType
  /\ defaultStrategy = d.defaultStrategy
  /\ rr = <<>>
  /\ sticky = <<>>
  /\ rrPrev = [p \in PoolsOf(catalog) |-> -1]
  /\ rrCalls = [p \in PoolsOf(catalog) |-> 0]
  /\ stickySeen = [p \in PoolsOf(catalog) |-> -1]
  /\ stickyLast = [k \in SessionKeys |-> <<>>]
  /\ lastCall = [op |-> "new", kind |-> "ok", error |-> "", from |-> "", drawn |-> FALSE]

(***************************************************************************)
(* normalizeDistribution as a function of its argument, in exact           *)
(* arithmetic and in the binary floating point of a JavaScript number:     *)
(* every sum and quotient is rounded to the nearest number with SigBits    *)
(* significant bits, ties to even (53 bits in the program).                *)
(***************************************************************************)

\* the significant bits of a number
SigBits == 5

\* the number of keys of a weight map
MaxKeys == 3

RECURSIVE Pow2(_)
Pow2(k) == IF k = 0 THEN 1 ELSE 2 * Pow2(k - 1)

RECURSIVE RoundScaled(_, _, _, _)
\* (n / d) * (up / down) rounded to SigBits significant bits, for n / d > 0:
\* n / d is scaled by powers of two into [2^(SigBits-1), 2^SigBits) and the
\* scaling is undone after rounding to the nearest integer, ties to even
RoundScaled(n, d, up, down) ==
  IF n >= Pow2(SigBits) * d THEN RoundScaled(n, 2 * d, 2 * up, down)
  ELSE IF n < Pow2(SigBits - 1) * d THEN RoundScaled(2 * n, d, up, 2 * down)
  ELSE LET fl == n \div d
            r  == n - fl * d
            m  == IF 2 * r > d \/ (2 * r = d /\ fl % 2 = 1) THEN fl + 1 ELSE fl
       IN Rat(m * up, down)

\* the floating-point number nearest to q >= 0
Round(q) == IF q.n = 0 THEN q ELSE RoundScaled(q.n, q.d, 1, 1)

RECURSIVE SumClampedFloat(_, _)
\* let sum = 0; for (const k of keys) sum += clamp01(dist[k]), each += rounded
SumClampedFloat(dist, i) ==
  IF i = 0 THEN Rat(0, 1)
  ELSE Round(RatAdd(SumClampedFloat(dist, i - 1), clamp01(dist[i].value)))

\* normalizeDistribution in floating point
normalizeDistributionFloat(dist) ==
  IF Len(dist) = 0 THEN <<>>
  ELSE LET sum == SumClampedFloat(dist, Len(dist)) IN
       IF sum.n <= 0
       THEN [i \in 1..Len(dist) |->
               [key |-> dist[i].key, value |-> Round(RatDiv(Rat(1, 1), Rat(Len(dist), 1)))]]
       ELSE [i \in 1..Len(dist) |->
               [key |-> dist[i].key, value |-> Round(RatDiv(clamp01(dist[i].value), sum))]]

\* the weights of a map: zero, fractions, one, above one, negative, NaN and
\* Infinity, each a floating-point number as it stands
Weights ==
  {[n |-> 0, d |-> 1], [n |-> 1, d |-> 4], [n |-> 1, d |-> 2], [n |-> 1, d |-> 1],
   [n |-> 3, d |-> 1], [n |-> -1, d |-> 1], [n |-> 0, d |-> 0], [n |-> 1, d |-> 0]}

\* the weight maps of up to MaxKeys keys
WeightMaps ==
  LET keys == <<"US", "DE", "FR", "IN", "BR">>
  IN UNION {{[i \in 1..k |-> KV(keys[i], w[i])] : w \in [1..k -> Weights]} :
            k \in 0..MaxKeys}

InitNormalize ==
  /\ distIn \in WeightMaps
  /\ distOut = <<>>
  /\ jsonIn = <<>>
  /\ poster = <<>>
  /\ IdleDirector
  /\ tokIn = IdleTok
  /\ tokOut = <<>>
  /\ IdleBuilder

\* normalizeDistribution(dist)
Normalize ==
  /\ distOut = <<>>
  /\ distOut' = <<[exact |-> normalizeDistribution(distIn),
                   float |-> normalizeDistributionFloat(distIn)]>>
  /\ UNCHANGED <<distIn, jsonIn, poster, directorVars, tokVars, builderVars, callerCatalog>>

\* normalizeDistribution(normalizeDistribution(dist))
NormalizeAgain ==
  /\ Len(distOut) = 1
  /\ distOut' = Append(distOut, [exact |-> normalizeDistribution(distOut[1].exact),
                                  float |-> normalizeDistributionFloat(distOut[1].float)])
  /\ UNCHANGED <<distIn, jsonIn, poster, directorVars, tokVars, builderVars, callerCatalog>>

SpecNormalize == InitNormalize /\ [][Normalize \/ NormalizeAgain]_vars

(***************************************************************************)
(* The caller keeps the catalog it constructed the Director from, or the   *)
(* one the loader returned, and changes it.                                *)
(***************************************************************************)

\* the countries of the JSON handed to the loader
JsonCountries == <<KV("US", <<KV("res_rotating", <<RawEntry("L", 1), RawEntry("L", 2)>>)>>)>>

\* the catalog with the array of one pool replaced
SetPool(cat, pool, arr) ==
  [i \in 1..Len(cat) |->
     IF cat[i].key # pool[1] THEN cat[i]
     ELSE KV(cat[i].key,
             [j \in 1..Len(cat[i].value) |->
                IF cat[i].value[j].key # pool[2] THEN cat[i].value[j]
                ELSE KV(pool[2], arr)])]

\* every (country, type) pair of a catalog, its empty arrays included
AllPools(cat) ==
  UNION {{<<cat[i].key, cat[i].value[j].key>> : j \in 1..Len(cat[i].value)} :
         i \in 1..Len(cat)}

\* what the caller can make of its catalog in one step: push an entry of
\* its own, pop one, or replace one
Mutations(cat) ==
  UNION {LET arr == ObjGet(ObjGet(cat, pool[1]), pool[2])
             Intruder == RawEntry("X", 9)
         IN {SetPool(cat, pool, Append(arr, Intruder)) : k \in {1} \cap 1..(MaxPoolLen - Len(arr))}
            \cup {SetPool(cat, pool, SubSeq(arr, 1, Len(arr) - 1)) : k \in {1} \cap 1..Len(arr)}
            \cup {SetPool(cat, pool, [arr EXCEPT ![k] = Intruder]) : k \in 1..Len(arr)}
         : pool \in AllPools(cat)}

\* a variant in which the Director holds the caller's object
OwnCatalogShared(own, callers) == callers

\* this.catalog once the caller's catalog has become callers: the constructor
\* kept a deep clone, which the caller cannot reach
OwnCatalogAfter(own, callers) == own

\* the caller constructs the Director from a catalog of its own, or takes
\* the Director and the catalog the loader returns
InitCopy ==
  /\ \/ \E own \in {<<KV("DE", <<KV("dc_static", Pool("D", 1))>>)>>} :
          /\ FreshDirector(NewProxyDirector([catalog |-> Obj(own),
                                             defaultStrategy |-> Str("roundRobin")]))
          /\ callerCatalog = own
     \/ \E res \in {buildProxyDirectorFromJson([countries |-> Obj(JsonCountries)])} :
          /\ FreshDirector(res.director)
          /\ callerCatalog = res.catalog
  /\ tokIn = IdleTok
  /\ tokOut = <<>>
  /\ IdleBuilder
  /\ IdleFn

\* the caller changes its catalog
MutateCatalog ==
  \E changed \in Mutations(callerCatalog) :
    /\ callerCatalog' = changed
    /\ catalog' = OwnCatalogAfter(catalog, changed)
    /\ UNCHANGED <<countryDistribution, defaultType, defaultStrategy, rr, sticky,
                   rrPrev, rrCalls, stickySeen, stickyLast, lastCall, tokVars,
                   builderVars, fnVars>>

SpecCopy == InitCopy /\ [][PickProxy \/ MutateCatalog]_vars

(***************************************************************************)
(* A Director constructed from a catalog the builder built.                *)
(***************************************************************************)

\* a call applied to the builder
Call(b, call) ==
  CASE call.op = "country" -> builderCountry(b, call.code)
    [] call.op = "add"     -> add(b, call.type, call.entry)
    [] call.op = "addMany" -> addMany(b, call.type, call.entries)
    [] call.op = "done"    -> done(b)

RECURSIVE RunCalls(_, _)
\* the builder after a sequence of calls, each in its own try / catch
RunCalls(b, calls) ==
  IF calls = <<>> THEN b
  ELSE LET res == Call(b, Head(calls))
       IN RunCalls([cat |-> res.cat, currentCountry |-> res.currentCountry], Tail(calls))

\* the calls made on a builder before build(): valid and invalid entries,
\* an unknown type, an add without a country, a country without entries
Scripts ==
  { <<>>,
    <<[op |-> "country", code |-> "us"],
      [op |-> "addMany", type |-> "res_rotating", entries |-> Items(<<GoodA, GoodB, NoEndpoint>>)],
      [op |-> "add", type |-> "res_rotating", entry |-> NullSlot],
      [op |-> "add", type |-> "mobile", entry |-> GoodA],
      [op |-> "done"],
      [op |-> "add", type |-> "dc_static", entry |-> GoodA]>>,
    <<[op |-> "country", code |-> "de"],
      [op |-> "add", type |-> "dc_static", entry |-> PortZero],
      [op |-> "add", type |-> "dc_static", entry |-> GoodB],
      [op |-> "add", type |-> "res_static", entry |-> NoEndpoint],
      [op |-> "add", type |-> "res_static", entry |-> GoodA],
      [op |-> "country", code |-> "us"],
      [op |-> "addMany", type |-> "dc_rotating", entries |-> NotAnArray]>> }

\* new ProxyDirector({ catalog: builder.build() }) after a script
InitBuilt ==
  /\ \E script \in Scripts :
       \E b \in {RunCalls([cat |-> <<>>, currentCountry |-> ""], script)} :
       \E ret \in {build(b)} :
         /\ builderCat = b.cat
         /\ currentCountry = b.currentCountry
         /\ built = <<[ret |-> ret, atReturn |-> ReturnedCatalog(ret, b.cat)]>>
         /\ builderLast = [op |-> "build", kind |-> "ok", appended |-> 0]
         /\ callerCatalog = ReturnedCatalog(ret, b.cat)
         /\ FreshDirector(NewProxyDirector([catalog |-> Obj(ReturnedCatalog(ret, b.cat))]))
  /\ tokIn = IdleTok
  /\ tokOut = <<>>
  /\ IdleFn

SpecBuilt == InitBuilt /\ [][PickProxy]_vars

(***************************************************************************)
(* The loader applied to a JSON document.                                  *)
(***************************************************************************)

\* the values a key of the JSON document can have; Absent stands for a key
\* the document does not hold
Absent == [t |-> "absent"]

\* the document with the keys that are not absent
JsonOf(countries, distribution, type, strategy) ==
  LET all == [countries |-> countries, distribution |-> distribution,
              defaultType |-> type, defaultStrategy |-> strategy]
  IN [f \in {g \in DOMAIN all : all[g] # Absent} |-> all[f]]

\* the documents given to the loader: null, or countries, distribution,
\* defaultType and defaultStrategy each absent, null, empty or given
JsonInputs ==
  {JsNull} \cup
  {JsonOf(c, d, t, s) :
     c \in {Absent, JsNull, Obj(<<>>), Obj(JsonCountries), Obj(RawCatalog)},
     d \in {Absent, JsNull, Obj(<<>>),
            Obj(<<KV("US", [n |-> 1, d |-> 4]), KV("DE", [n |-> 1, d |-> 1]),
                  KV("FR", [n |-> 1, d |-> 4])>>),
            Obj(<<KV("US", [n |-> 3, d |-> 1]), KV("DE", [n |-> -1, d |-> 1])>>)},
     t \in {Absent, JsNull, Str(""), Str("dc_static")},
     s \in {Absent, Str(""), Str("sticky")}}

InitLoader ==
  /\ jsonIn \in JsonInputs
  /\ distIn = <<>>
  /\ distOut = <<>>
  /\ poster = <<>>
  /\ IdleDirector
  /\ tokIn = IdleTok
  /\ tokOut = <<>>
  /\ IdleBuilder

\* const { director, catalog } = buildProxyDirectorFromJson(json)
LoadFromJson ==
  /\ lastCall.op = "new"
  /\ \E res \in {buildProxyDirectorFromJson(jsonIn)} :
       IF res.kind = "throw"
       THEN /\ lastCall' = [op |-> "load", kind |-> "throw", error |-> res.error,
                            from |-> "", drawn |-> FALSE]
            /\ UNCHANGED <<catalog, countryDistribution, defaultType, defaultStrategy,
                           rr, sticky, rrPrev, rrCalls, stickySeen, stickyLast,
                           callerCatalog>>
       ELSE /\ catalog' = res.director.catalog
            /\ countryDistribution' = res.director.countryDistribution
            /\ defaultType' = res.director.defaultType
            /\ defaultStrategy' = res.director.defaultStrategy
            /\ rr' = <<>>
            /\ sticky' = <<>>
            /\ rrPrev' = [p \in PoolsOf(res.director.catalog) |-> -1]
            /\ rrCalls' = [p \in PoolsOf(res.director.catalog) |-> 0]
            /\ stickySeen' = [p \in PoolsOf(res.director.catalog) |-> -1]
            /\ stickyLast' = [k \in SessionKeys |-> <<>>]
            /\ callerCatalog' = res.catalog
            /\ lastCall' = [op |-> "load", kind |-> "ok", error |-> "",
                            from |-> "", drawn |-> FALSE]
  /\ UNCHANGED <<tokVars, builderVars, fnVars>>

SpecLoader == InitLoader /\ [][LoadFromJson]_vars

(***************************************************************************)
(* The catalog builder.                                                    *)
(***************************************************************************)

\* does a port, as written in an entry, denote a positive finite number
PositiveFinite(v) ==
  \/ v.t = "num" /\ v.n > 0
  \/ /\ v.t = "str"
     /\ Len(v.s) > 0
     /\ \A i \in 1..Len(v.s) : v.s[i] \in Range(Digits)
     /\ \E i \in 1..Len(v.s) : v.s[i] # "0"

\* an entry whose endpoint is missing or invalid: no endpoint, a protocol
\* other than http, https and socks5, an empty host, or a port that is not
\* positive and finite
InvalidEndpoint(entry) ==
  \/ "null" \in DOMAIN entry
  \/ "endpoint" \notin DOMAIN entry
  \/ "protocol" \notin DOMAIN entry.endpoint
  \/ entry.endpoint.protocol \notin {"http", "https", "socks5"}
  \/ "host" \notin DOMAIN entry.endpoint
  \/ entry.endpoint.host = <<>>
  \/ "port" \notin DOMAIN entry.endpoint
  \/ ~PositiveFinite(entry.endpoint.port)

Bucket(cat, cc, type) ==
  IF ObjHas(cat, cc) /\ ObjHas(ObjGet(cat, cc), type)
  THEN ObjGet(ObjGet(cat, cc), type) ELSE <<>>

RECURSIVE SumValues(_, _)
\* the exact sum of the first i weights of a map
SumValues(dist, i) ==
  IF i = 0 THEN Rat(0, 1) ELSE RatAdd(SumValues(dist, i - 1), dist[i].value)

\* C15: for a non-empty weight map with at least one positive weight, the
\* values of normalizeDistribution(map) are all non-negative, are defined
\* over the same keys, and sum to 1 in exact arithmetic.
C15_NormalizedSumsToOne ==
  (Len(distOut) >= 1 /\ \E i \in 1..Len(distIn) : distIn[i].value.n > 0) =>
    LET out == distOut[1].exact
    IN /\ ObjKeys(out) = ObjKeys(distIn)
       /\ \A i \in 1..Len(out) : out[i].value.n >= 0 /\ out[i].value.d > 0
       /\ SumValues(out, Len(out)) = Rat(1, 1)

\* a map of three keys with a weight above 1, a negative weight and a
\* fraction has been normalized
C15_Witness ==
  /\ Len(distOut) >= 1
  /\ Len(distIn) = 3
  /\ \E i, j, k \in 1..3 :
       /\ distIn[i].value = [n |-> 3, d |-> 1]
       /\ distIn[j].value = [n |-> -1, d |-> 1]
       /\ distIn[k].value = [n |-> 1, d |-> 4]
  /\ \E i \in 1..3 : distOut[1].exact[i].value = Rat(4, 5)

\* C16: when the weights clamped to [0, 1] do not sum to a positive number
\* (every weight is zero, negative or not a number), every key of the N keys
\* gets the weight 1/N; and an empty map gives an empty map.
C16_UniformFallback ==
  Len(distOut) >= 1 =>
    /\ (\A i \in 1..Len(distIn) : distIn[i].value.n <= 0) =>
         /\ ObjKeys(distOut[1].exact) = ObjKeys(distIn)
         /\ ObjKeys(distOut[1].float) = ObjKeys(distIn)
         /\ \A i \in 1..Len(distIn) :
              /\ distOut[1].exact[i].value = Rat(1, Len(distIn))
              /\ distOut[1].float[i].value = Round(Rat(1, Len(distIn)))
    /\ Len(distIn) = 0 => distOut[1].exact = <<>> /\ distOut[1].float = <<>>

\* a map of three keys whose weights are zero, negative and NaN has been
\* normalized to thirds
C16_Witness ==
  /\ Len(distOut) >= 1
  /\ Len(distIn) = 3
  /\ distIn[1].value = [n |-> 0, d |-> 1]
  /\ distIn[2].value = [n |-> -1, d |-> 1]
  /\ distIn[3].value = [n |-> 0, d |-> 0]
  /\ distOut[1].exact[3].value = [n |-> 1, d |-> 3]

\* C17 as stated: normalizeDistribution(normalizeDistribution(m)), as the
\* program computes it, equals normalizeDistribution(m) for every weight
\* map m.
C17_Idempotent ==
  Len(distOut) = 2 => distOut[2].float = distOut[1].float

\* C17: normalizeDistribution(normalizeDistribution(m)) equals
\* normalizeDistribution(m) in exact arithmetic, for every weight map m.  As
\* the program computes it, in floating point, the second result has the
\* keys of the first and equals it whenever the weights of the first, added
\* in key order, give exactly 1; when rounding makes that sum differ from 1
\* the second call divides by it once more.
C17_IdempotentUpToRounding ==
  Len(distOut) = 2 =>
    /\ distOut[2].exact = distOut[1].exact
    /\ ObjKeys(distOut[2].float) = ObjKeys(distOut[1].float)
    /\ SumClampedFloat(distOut[1].float, Len(distOut[1].float)) = Rat(1, 1) =>
         distOut[2].float = distOut[1].float
    /\ \A i \in 1..Len(distOut[1].float) :
         distOut[2].float[i].value \in
           {distOut[1].float[i].value,
            Round(RatDiv(distOut[1].float[i].value,
                         SumClampedFloat(distOut[1].float, Len(distOut[1].float))))}

\* a map with a weight above 1 has been normalized twice, and rounding made
\* the second result differ from the first
C17_Witness ==
  /\ Len(distOut) = 2
  /\ \E i \in 1..Len(distIn) : distIn[i].value = [n |-> 3, d |-> 1]
  /\ distOut[2].float # distOut[1].float
  /\ distOut[2].exact = distOut[1].exact

(***************************************************************************)
(* The strategy a pick reports.                                            *)
(***************************************************************************)

\* the strategy that chooses the index of a call: roundRobin for a sticky
\* request without session key, random for a strategy that is none of
\* random, roundRobin and sticky, the requested strategy otherwise
AppliedStrategy(d, sel) ==
  LET requested == ResolveStrategy(d, sel)
  IN IF requested = "sticky" /\ SessionKeyOf(sel) = <<>> THEN "roundRobin"
     ELSE IF requested \notin {"random", "roundRobin", "sticky"} THEN "random"
     ELSE requested

\* C18: the strategy field of the ProxyPickMeta pickProxy returns names the
\* strategy that chose the index: roundRobin when a sticky request without
\* session key fell back to the round-robin cursor, random when an
\* unrecognised strategy fell back to random.
C18_StrategyNamesApplied ==
  \A sel \in Selections(catalog) :
    \A r1 \in CountryDraws(sel), r2 \in IndexDraws(Director, sel) :
      LET out == pickProxy(Director, sel, r1, r2).out
      IN out.kind = "ok" => out.strategy = AppliedStrategy(Director, sel)

(***************************************************************************)
(* Picks from a built catalog.                                             *)
(***************************************************************************)

\* C19: for a Director constructed from a catalog returned by build(), no
\* pickProxy call has raised, and none can raise now, the empty-slot or the
\* missing-endpoint error: every index a strategy selects lies in its pool
\* and refers to an entry with an endpoint.
C19_BuiltCatalogIsConsistent ==
  /\ lastCall.error \notin {"empty proxy slot", "missing endpoint"}
  /\ \A sel \in Selections(catalog) :
       \A r1 \in CountryDraws(sel), r2 \in IndexDraws(Director, sel) :
         LET out == pickProxy(Director, sel, r1, r2).out
         IN /\ out.kind = "throw" => out.error \notin {"empty proxy slot", "missing endpoint"}
            /\ out.kind = "ok" =>
                 LET pool == ObjGet(ObjGet(catalog, out.slot.country), out.slot.type)
                 IN /\ out.slot.index \in 0..(Len(pool) - 1)
                    /\ "null" \notin DOMAIN pool[out.slot.index + 1]
                    /\ "endpoint" \in DOMAIN pool[out.slot.index + 1]

\* picks by cursor and by session have returned entries of a built catalog
\* that holds two entries in one pool
C19_Witness ==
  /\ builderLast.op = "build"
  /\ lastCall.op = "pickProxy"
  /\ lastCall.kind = "ok"
  /\ rr # <<>>
  /\ sticky # <<>>
  /\ \E pool \in PoolsOf(catalog) : PoolLen(catalog, pool) = 2 /\ rrPrev[pool] = 1

(***************************************************************************)
(* The loader against the constructor.                                     *)
(***************************************************************************)

\* the constructor argument { catalog: json.countries, countryDistribution:
\* json.distribution, defaultType: json.defaultType, defaultStrategy:
\* json.defaultStrategy }, a key of the document that is absent being absent
\* from it
DirectCfg(json) ==
  LET from == [catalog |-> "countries", countryDistribution |-> "distribution",
               defaultType |-> "defaultType", defaultStrategy |-> "defaultStrategy"]
  IN [f \in {g \in DOMAIN from : from[g] \in DOMAIN json} |-> json[from[f]]]

\* the same argument with the loader's defaults: json.distribution || {},
\* json.defaultType || "res_rotating", json.defaultStrategy || "random"
DefaultedCfg(json) ==
  [catalog |-> json.countries,
   countryDistribution |-> IF Nullish(json, "distribution") THEN Obj(<<>>)
                           ELSE json.distribution,
   defaultType |-> Str(StrOr(json, "defaultType", "res_rotating")),
   defaultStrategy |-> Str(StrOr(json, "defaultStrategy", "random"))]

\* the Director holds the fields d
HoldsFields(d) ==
  /\ d.kind = "ok"
  /\ catalog = d.catalog
  /\ countryDistribution = d.countryDistribution
  /\ defaultType = d.defaultType
  /\ defaultStrategy = d.defaultStrategy

\* C20 as stated: the loader fails only when countries is missing, and the
\* Director it returns holds the catalog, the normalized distribution and
\* the defaults of new ProxyDirector({catalog: json.countries,
\* countryDistribution: json.distribution, defaultType, defaultStrategy}),
\* the defaults being res_rotating and random when absent.
C20_LoaderEqualsConstructor ==
  lastCall.op = "load" =>
    /\ lastCall.kind = "throw" <=> (jsonIn = JsNull \/ Nullish(jsonIn, "countries"))
    /\ lastCall.kind = "ok" => HoldsFields(NewProxyDirector(DirectCfg(jsonIn)))

\* C20: the loader fails exactly when json is null or json.countries is
\* absent or null.  Otherwise its Director holds what new ProxyDirector
\* holds when given json.countries, json.distribution || {}, json.defaultType
\* || res_rotating and json.defaultStrategy || random: a null distribution
\* is taken as {} (the constructor given null throws) and a null or empty
\* default is replaced (the constructor keeps it).  The loader's extra
\* normalization changes nothing in exact arithmetic; in floating point it
\* keeps the keys and changes nothing when the normalized weights add up to
\* exactly 1.
C20_LoaderEqualsConstructorWithDefaults ==
  lastCall.op = "load" =>
    /\ lastCall.kind = "throw" <=> (jsonIn = JsNull \/ Nullish(jsonIn, "countries"))
    /\ lastCall.kind = "ok" =>
         /\ HoldsFields(NewProxyDirector(DefaultedCfg(jsonIn)))
         /\ callerCatalog = catalog
         /\ LET once  == normalizeDistributionFloat(DefaultedCfg(jsonIn).countryDistribution.v)
                twice == normalizeDistributionFloat(once)
            IN /\ ObjKeys(twice) = ObjKeys(once)
               /\ SumClampedFloat(once, Len(once)) = Rat(1, 1) => twice = once

\* the loader has returned a Director for a document with a raw catalog, a
\* null distribution and an empty default type, which the constructor given
\* the same values refuses
C20_Witness ==
  /\ lastCall.op = "load"
  /\ lastCall.kind = "ok"
  /\ PoolsOf(catalog) # {}
  /\ "distribution" \in DOMAIN jsonIn
  /\ jsonIn.distribution = JsNull
  /\ "defaultType" \in DOMAIN jsonIn
  /\ jsonIn.defaultType = Str("")
  /\ defaultType = "res_rotating"
  /\ NewProxyDirector(DirectCfg(jsonIn)).kind = "throw"

\* ------------------------------------------------------------------------
\* ApiPoster: the proxy resolution of request().  The repository holds two
\* editions of the class, src/api-client.mjs and helpers/api-client.mjs;
\* poster.helpers tells which one is loaded.
\* ------------------------------------------------------------------------

MaxRequests == 2

JsUndefined == [t |-> "undefined"]

\* a ?? b
Coalesce(a, b) == IF a \in {JsNull, JsUndefined} THEN b ELSE a

\* options.f
Prop(o, f) == IF f \in DOMAIN o THEN o[f] ELSE JsUndefined

\* Proxies, Director objects and selections are tagged records: a ProxyConfig
\* [t |-> "proxy", name], a Director [t |-> "director", id], a
\* ProxySelectionOptions [t |-> "geo", sel].
\* The Directors an ApiPoster can be given: one for the class ("global"), one
\* for the instance, one for a call; each is constructed from a catalog of
\* one pool, and poster.directors holds its cursors and its sticky table
NewPosterDirector ==
  [catalog |-> deepClone(<<KV("US", <<KV("res_rotating", Pool("P", MaxPoolLen))>>)>>),
   countryDistribution |-> <<>>, defaultType |-> "res_rotating",
   defaultStrategy |-> "roundRobin", rr |-> <<>>, sticky |-> <<>>]

GeoOption == [country |-> "US", type |-> "", strategy |-> "", sessionKey |-> Undefined]

GeoInstance == [country |-> "us", type |-> "", strategy |-> "roundRobin", sessionKey |-> SessA]

\* new ApiPoster(cfg): the proxy fields of the instance
NewApiPoster(p, cfg) ==
  [p EXCEPT
     !.proxy = Coalesce(Coalesce(Prop(cfg, "proxy"), p.defaultProxy), JsNull),
     !.geo = Coalesce(Prop(cfg, "geo"), JsNull),
     !.proxyDirector =
        IF p.helpers THEN Coalesce(Prop(cfg, "proxyDirector"), JsNull)
        ELSE Coalesce(Coalesce(Prop(cfg, "proxyDirector"), p.staticDirector), JsNull),
     !.lastProxyUsed = JsNull]

\* const director = options.proxyDirector ?? this.proxyDirector ?? ...
resolveDirector(p, options) ==
  Coalesce(Coalesce(Prop(options, "proxyDirector"), p.proxyDirector),
           IF p.helpers THEN p.staticDirector ELSE JsNull)

\* #resolveProxy(options): { proxyConfig, meta }, or the error pickProxy
\* throws; with the Directors after the call, the Director that picked and
\* the selection it was given
resolveProxy(p, options, r2) ==
  LET explicitProxy == IF "proxy" \in DOMAIN options THEN options.proxy ELSE JsUndefined
      director      == resolveDirector(p, options)
      geo           == IF Prop(options, "geo") \notin {JsNull, JsUndefined}
                       THEN options.geo ELSE p.geo
      none          == [directors |-> p.directors, kind |-> "ok", by |-> "", with |-> JsNull,
                        meta |-> JsNull]
  IN IF explicitProxy # JsUndefined
     THEN none @@ [proxyConfig |-> explicitProxy]
     ELSE IF director # JsNull /\ geo # JsNull
     THEN LET pick == pickProxy([NewPosterDirector EXCEPT
                                    !.rr = p.directors[director.id].rr,
                                    !.sticky = p.directors[director.id].sticky],
                                 geo.sel, 0, r2)
              after == [p.directors EXCEPT ![director.id] =
                          [rr |-> pick.rr, sticky |-> pick.sticky]]
          IN IF pick.out.kind = "throw"
             THEN [directors |-> after, kind |-> "throw", by |-> director.id, with |-> geo,
                   meta |-> JsNull, proxyConfig |-> JsNull]
             ELSE [directors |-> after, kind |-> "ok", by |-> director.id, with |-> geo,
                   meta |-> [t |-> "pick", country |-> pick.out.country,
                             type |-> pick.out.type, provider |-> pick.out.provider],
                   proxyConfig |-> [t |-> "picked", cfg |-> pick.out.proxyConfig]]
     ELSE IF p.proxy # JsNull THEN none @@ [proxyConfig |-> p.proxy]
     ELSE IF p.defaultProxy # JsNull THEN none @@ [proxyConfig |-> p.defaultProxy]
     ELSE none @@ [proxyConfig |-> JsNull]

\* the configurations an instance is constructed with
PosterCfgs ==
  { [f \in {g \in {"proxy", "geo", "proxyDirector"} : all[g] # Absent} |-> all[f]] :
      all \in [proxy : {Absent, [t |-> "proxy", name |-> "fixed"]},
               geo : {Absent, [t |-> "geo", sel |-> GeoInstance]},
               proxyDirector : {Absent, [t |-> "director", id |-> "instance"]}] }

\* the options a request is made with
RequestOptions ==
  { [f \in {g \in {"proxy", "geo", "proxyDirector"} : all[g] # Absent} |-> all[f]] :
      all \in [proxy : {Absent, JsNull, JsUndefined, [t |-> "proxy", name |-> "explicit"]},
               geo : {Absent, [t |-> "geo", sel |-> GeoOption]},
               proxyDirector : {Absent, JsNull, [t |-> "director", id |-> "call"]}] }

InitPoster ==
  /\ \E helpers \in BOOLEAN, cfg \in PosterCfgs :
       poster = NewApiPoster(
                  [helpers |-> helpers, defaultProxy |-> JsNull, staticDirector |-> JsNull,
                   proxy |-> JsNull, geo |-> JsNull, proxyDirector |-> JsNull,
                   lastProxyUsed |-> JsNull,
                   directors |-> [id \in {"global", "instance", "call"} |->
                                    [rr |-> <<>>, sticky |-> <<>>]],
                   requests |-> 0, last |-> <<>>], cfg)
  /\ distIn = <<>>
  /\ distOut = <<>>
  /\ jsonIn = <<>>
  /\ IdleDirector
  /\ tokIn = IdleTok
  /\ tokOut = <<>>
  /\ IdleBuilder

\* ApiPoster.setDefaultProxy(proxy)
SetDefaultProxy ==
  /\ \E proxy \in {JsNull, [t |-> "proxy", name |-> "default"]} :
       poster' = [poster EXCEPT !.defaultProxy = proxy, !.last = <<>>]
  /\ UNCHANGED <<distIn, distOut, jsonIn, directorVars, tokVars, builderVars,
                 callerCatalog>>

\* ApiPoster.setProxyDirector(director)
SetProxyDirector ==
  /\ \E director \in {JsUndefined, [t |-> "director", id |-> "global"]} :
       poster' = [poster EXCEPT
                    !.staticDirector = Coalesce(director, JsNull),
                    !.last = <<>>]
  /\ UNCHANGED <<distIn, distOut, jsonIn, directorVars, tokVars, builderVars,
                 callerCatalog>>

\* client = new ApiPoster(cfg)
Construct ==
  /\ \E cfg \in PosterCfgs :
       poster' = [NewApiPoster(poster, cfg) EXCEPT !.last = <<>>]
  /\ UNCHANGED <<distIn, distOut, jsonIn, directorVars, tokVars, builderVars,
                 callerCatalog>>

\* client.request(method, url, body, options), up to the resolution of its
\* proxy
Request ==
  /\ poster.requests < MaxRequests
  /\ \E options \in RequestOptions, r2 \in IndexDraws(NewPosterDirector, GeoOption) :
     \E res \in {resolveProxy(poster, options, r2)} :
       /\ poster' = [poster EXCEPT
                       !.directors = res.directors,
                       !.lastProxyUsed = IF res.kind = "ok" THEN res.meta ELSE @,
                       !.requests = @ + 1,
                       !.last = <<[options |-> options, before |-> poster.directors,
                                   kind |-> res.kind, by |-> res.by, with |-> res.with,
                                   proxyConfig |-> res.proxyConfig]>>]
       /\ UNCHANGED <<distIn, distOut, jsonIn, directorVars, tokVars, builderVars,
                 callerCatalog>>

SpecPoster ==
  InitPoster /\ [][SetDefaultProxy \/ SetProxyDirector \/ Construct \/ Request]_vars

\* ------------------------------------------------------------------------
\* C21..C30
\* ------------------------------------------------------------------------

\* C21: the proxy of a request follows the documented precedence: a proxy
\* carried by the call options (null included) is used and no Director picks,
\* the Directors staying as they were; otherwise the Director of the call,
\* else of the instance, else of the class picks with options.geo, else with
\* the instance's geo; otherwise the instance's fixed proxy, then the
\* class-level default proxy, then no proxy.
C21_ResolutionFollowsPrecedence ==
  Len(poster.last) = 1 =>
    LET l        == poster.last[1]
        o        == l.options
        director == Coalesce(Coalesce(Prop(o, "proxyDirector"), poster.proxyDirector),
                             poster.staticDirector)
        geo      == Coalesce(Prop(o, "geo"), poster.geo)
    IN IF "proxy" \in DOMAIN o /\ o.proxy # JsUndefined
       THEN l.proxyConfig = o.proxy /\ l.by = "" /\ poster.directors = l.before
       ELSE IF director # JsNull /\ geo # JsNull
       THEN l.by = director.id /\ l.with = geo
       ELSE /\ l.by = ""
            /\ poster.directors = l.before
            /\ l.proxyConfig = Coalesce(poster.proxy, poster.defaultProxy)

\* C22: a Director starts with no round-robin cursor and no sticky entry, and
\* no step of it (pickProxy, setCountryDistribution) removes a key from the
\* cursors or a session key from the sticky table.
C22_KeysNeverLost ==
  /\ rr = <<>> /\ sticky = <<>>
  /\ [][DOMAIN rr \subseteq DOMAIN rr' /\ DOMAIN sticky \subseteq DOMAIN sticky']_vars

\* cursors of two pools and a sticky entry are held
C22_Witness == Cardinality(DOMAIN rr) >= 2 /\ SessA \in DOMAIN sticky

\* the cursors and the sticky table agree outside the given keys
SameExcept(before, after, keys) ==
  /\ DOMAIN before \ keys = DOMAIN after \ keys
  /\ \A k \in DOMAIN before \ keys : after[k] = before[k]

C24_CursorsAndStickyInRange ==
  /\ \A pool \in PoolsOf(catalog) :
       RRKey(pool[1], pool[2]) \in DOMAIN rr =>
         rr[RRKey(pool[1], pool[2])] \in 0..(PoolLen(catalog, pool) - 1)
  /\ \A key \in DOMAIN sticky :
       /\ <<sticky[key].country, sticky[key].type>> \in PoolsOf(catalog)
       /\ sticky[key].index \in
            0..(PoolLen(catalog, <<sticky[key].country, sticky[key].type>>) - 1)
  /\ \A sel \in Selections(catalog) :
       \A r1 \in CountryDraws(sel), r2 \in IndexDraws(Director, sel) :
         LET res == pickProxy(Director, sel, r1, r2)
             out == res.out
         IN ( /\ BySession(sel, out)
              /\ sel.sessionKey \in DOMAIN sticky
              /\ <<sticky[sel.sessionKey].country, sticky[sel.sessionKey].type>>
                   # <<out.slot.country, out.slot.type>> )
            => /\ res.sticky[sel.sessionKey] =
                    [country |-> out.slot.country, type |-> out.slot.type,
                     index |-> out.slot.index]
               /\ out.slot.index = RandomIndex(r2, PoolLen(catalog,
                                      <<out.slot.country, out.slot.type>>))

\* ------------------------------------------------------------------------
\* Several callers of one Director.  pickProxy is synchronous, so each call
\* is one step and the callers' picks interleave in any order.  In this
\* specification rrCalls holds, per pool, the round-robin picks made on it in
\* order, each with its caller and the index it received.
\* ------------------------------------------------------------------------

NumCallers == 2

MaxPicks == 4

\* one country with two pools, of lengths MaxPoolLen and MaxPoolLen + 1
SharedCatalog ==
  <<KV("US", <<KV("res_rotating", Pool("W", MaxPoolLen)),
               KV("dc_static", Pool("G", MaxPoolLen + 1))>>)>>

InitCallers ==
  /\ catalog = deepClone(SharedCatalog)
  /\ countryDistribution = <<>>
  /\ defaultType = "res_rotating"
  /\ defaultStrategy \in {"random", "roundRobin"}
  /\ callerCatalog = SharedCatalog
  /\ rr = <<>>
  /\ sticky = <<>>
  /\ rrPrev = [p \in PoolsOf(catalog) |-> -1]
  /\ rrCalls = [p \in PoolsOf(catalog) |-> <<>>]
  /\ stickySeen = [p \in PoolsOf(catalog) |-> -1]
  /\ stickyLast = [k \in SessionKeys |-> <<>>]
  /\ lastCall = [op |-> "new", kind |-> "ok", error |-> "", from |-> "", drawn |-> FALSE]
  /\ tokIn = IdleTok
  /\ tokOut = <<>>
  /\ IdleBuilder
  /\ IdleFn

\* caller c: director.pickProxy({ country: "US", type, strategy: "roundRobin" })
CallerPick(c) ==
  /\ Len(rrCalls[<<"US", "res_rotating">>]) + Len(rrCalls[<<"US", "dc_static">>])
       < MaxPicks
  /\ \E type \in {"res_rotating", "dc_static"} :
     \E res \in {pickProxy(Director, [country |-> "US", type |-> type,
                                      strategy |-> "roundRobin", sessionKey |-> Undefined],
                           0, 0)} :
       /\ catalog' = res.catalog
       /\ rr' = res.rr
       /\ sticky' = res.sticky
       /\ rrPrev' = [rrPrev EXCEPT ![<<"US", type>>] = res.out.slot.index]
       /\ rrCalls' = [rrCalls EXCEPT ![<<"US", type>>] =
                        Append(@, [caller |-> c, index |-> res.out.slot.index])]
       /\ lastCall' = [op |-> "pickProxy", kind |-> res.out.kind, error |-> "",
                       from |-> "cursor", drawn |-> FALSE]
       /\ UNCHANGED <<countryDistribution, defaultType, defaultStrategy, stickySeen,
                      stickyLast, tokVars, builderVars, callerCatalog, fnVars>>

SpecCallers == InitCallers /\ [][\E c \in 1..NumCallers : CallerPick(c)]_vars

\* C25: with each pickProxy call one atomic step, whatever the interleaving
\* of the callers' roundRobin picks on one pool of length L >= 2, two
\* consecutive picks never receive the same index, and no advance is lost:
\* after n picks the cursor of the pool is n modulo L.
C25_NoLostAdvance ==
  \A pool \in PoolsOf(catalog) :
    LET picks == rrCalls[pool]
        L     == PoolLen(catalog, pool)
    IN /\ \A i \in 1..(Len(picks) - 1) : picks[i].index # picks[i + 1].index
       /\ \A i \in 1..Len(picks) : picks[i].index = i % L
       /\ RRGet(rr, RRKey(pool[1], pool[2])) = Len(picks) % L

\* two callers alternated on one pool, with a pick on the other pool between
C25_Witness ==
  \E pool \in PoolsOf(catalog), other \in PoolsOf(catalog) :
    /\ other # pool
    /\ Len(rrCalls[pool]) >= 3
    /\ rrCalls[pool][1].caller # rrCalls[pool][2].caller
    /\ rrCalls[pool][2].caller # rrCalls[pool][3].caller
    /\ Len(rrCalls[other]) >= 1

\* C26: a pickProxy call that throws, whatever the reason (the error on an
\* empty or endpoint-less slot of a raw catalog included), leaves the cursors
\* and the sticky table as they were before the call.
C26_ThrowLeavesStateUnchanged ==
  \A sel \in Selections(catalog) :
    \A r1 \in CountryDraws(sel), r2 \in IndexDraws(Director, sel) :
      LET res == pickProxy(Director, sel, r1, r2)
      IN res.out.kind = "throw" => res.rr = rr /\ res.sticky = sticky

\* the normalized weight of a catalog country is positive
PositiveWeight(c) ==
  ObjHas(countryDistribution, c) /\ ObjGet(countryDistribution, c).n > 0

\* C27: when pickProxy is called without a country and some catalog country
\* has a positive normalized weight, the country resolved is never a catalog
\* country of weight zero or absent from the distribution, whatever the
\* random draw, a draw of exactly 0 included.
C27_NeverZeroWeightCountry ==
  (\E i \in 1..Len(catalog) : PositiveWeight(catalog[i].key)) =>
    \A r1 \in Draws :
      LET c == ResolveCountry(Director, [country |-> "", type |-> "", strategy |-> "",
                                         sessionKey |-> Undefined], r1)
      IN ObjHas(catalog, c) => PositiveWeight(c)

\* C28: pickProxy called without a country returns a pick whenever some
\* catalog country has a non-empty pool, whatever is drawn: also with a
\* country the builder focused without adding entries, and with a raw catalog
\* whose country keys are not uppercase.
C28_CountrylessPickSucceeds ==
  PoolsOf(catalog) # {} =>
    \A sel \in {s \in Selections(catalog) : s.country = ""} :
      \A r1 \in Draws, r2 \in IndexDraws(Director, sel) :
        pickProxy(Director, sel, r1, r2).out.kind = "ok"

====
